---------------------------- MODULE Spec2Model ----------------------------
(***************************************************************************)
(* Model of the CSFA daily report generator: the reconciliation and        *)
(* aggregation pipeline and the workbook writer                            *)
(* (src/generate_detailed_report.py), the run and scheduler logic          *)
(* (src/main.py) and the mail step (src/send_report.py).                   *)
(*                                                                         *)
(* Representation.                                                         *)
(*   - A Python str is a sequence of one-character strings.                *)
(*   - A raw API field is [k |-> kind, s |-> str] with kind "str", "null"  *)
(*     (JSON null / None), "absent" (key not in the dict) or "int" (a      *)
(*     number, s holding its digits).                                      *)
(*   - A data-frame cell is <<>> (NaN / None) or <<x>> (the value x).      *)
(*   - A DataFrame is [columns |-> set of names, rows |-> sequence of      *)
(*     records]; pd.DataFrame([]) has no columns at all.                   *)
(*   - Money is an integer number of cents.                                *)
(***************************************************************************)
EXTENDS Integers, Sequences, FiniteSets, TLC

VARIABLES visits_data, orders_data, df_visits, df_orders, df_final,
          df_called, reps, df_summary, pc, raised, book, next_rep,
          cur_rep, cur_visits, cur_calls, cur_customers, row,
          order_i, all_items, log, ws, api_calls,
          run_mode, config_valid, send_email, today, days, run_calls, failed,
          result, exit_code,
          run_no, output_file, sent, send_env, smtp, msg, first_run

vars == <<visits_data, orders_data, df_visits, df_orders, df_final,
          df_called, reps, df_summary, pc, raised, book, next_rep,
          cur_rep, cur_visits, cur_calls, cur_customers, row,
          order_i, all_items, log, ws, api_calls,
          run_mode, config_valid, send_email, today, days, run_calls, failed,
          result, exit_code,
          run_no, output_file, sent, send_env, smtp, msg, first_run>>

\* The workbook under construction and the position of the loop over reps.
writerVars == <<book, next_rep>>

\* The arguments and locals of one call of _build_customer_dict, stepped
\* row by row.
dictVars == <<cur_rep, cur_visits, cur_calls, cur_customers, row>>

\* The locals of _write_rep_data and _fetch_order_items, the worksheet,
\* the error log and the calls of get_order_details made so far.
fetchVars == <<order_i, all_items, log, ws, api_calls>>

\* main.py: the configuration, the scheduler's clock, and of the current
\* run of generate_and_send_report the external calls made, the step that
\* raised and the value returned.
mainVars == <<run_mode, config_valid, send_email, today, days, run_calls, failed,
              result, exit_code>>

\* The number of the current run, the output file on disk (<<>> when there
\* is none, <<n>> when run n wrote it, run 0 being an earlier process) and
\* the emails that went out, each [run, attachment].
fileVars == <<run_no, output_file, sent>>

\* send_report: the environment of the call, the SMTP operations attempted
\* and the message built.
mailVars == <<send_env, smtp, msg>>

\* What generate_detailed_report does not touch.
outsideReport == <<dictVars, fetchVars, mainVars, fileVars, mailVars, first_run>>

\* What a call of _build_customer_dict does not touch.
reportVars == <<visits_data, df_visits, df_orders, df_final, df_called, reps,
                df_summary, raised, book, next_rep, fetchVars, mainVars,
                fileVars, mailVars, first_run>>

\* What a call of _write_rep_data does not touch.
outsideSheet == <<visits_data, orders_data, df_visits, df_orders, df_final,
                  df_called, reps, df_summary, raised, book, next_rep,
                  cur_visits, cur_calls, mainVars, fileVars, mailVars,
                  first_run>>

\* What main.py does not touch.
outsideMain == <<visits_data, orders_data, df_visits, df_orders, df_final,
                 df_called, reps, df_summary, raised, book, next_rep,
                 dictVars, fetchVars, mailVars, first_run>>

(***************************************************************************)
(* Bounds of the model.                                                    *)
(***************************************************************************)
MaxVisits == 2

MaxOrders == 2

MaxRepVisits == 2

MaxRepCalls == 2

MaxDays == 2

MaxSummaryRows == 2

(***************************************************************************)
(* Python values and string primitives.                                    *)
(***************************************************************************)
Str(s) == [k |-> "str", s |-> s]

Null == [k |-> "null", s |-> <<>>]

Absent == [k |-> "absent", s |-> <<>>]

IntVal(digits) == [k |-> "int", s |-> digits]

NaN == <<>>

Some(x) == <<x>>

IsNull(c) == c = <<>>

\* dict.get(key, default): the default is used only when the key is absent;
\* a key present with value None yields None.
Get(d, key, default) == IF d[key].k = "absent" THEN default ELSE d[key]

\* dict.get(key): None when the key is absent.
GetOrNone(d, key) == Get(d, key, Null)

\* `x or ""` : None and the empty string are falsy.
OrEmpty(v) == IF v.k = "null" \/ (v.k = "str" /\ v.s = <<>>) THEN Str(<<>>) ELSE v

\* The cell a Python value becomes in a DataFrame column.
ToCell(v) == IF v.k = "null" THEN NaN ELSE Some(v.s)

RECURSIVE LStrip(_)
LStrip(s) == IF s # <<>> /\ Head(s) = " " THEN LStrip(Tail(s)) ELSE s

RECURSIVE RStrip(_)
RStrip(s) ==
    IF s # <<>> /\ s[Len(s)] = " " THEN RStrip(SubSeq(s, 1, Len(s) - 1)) ELSE s

\* str.strip()
Strip(s) == RStrip(LStrip(s))

\* str.replace(c, "")
RECURSIVE Remove(_, _)
Remove(s, c) ==
    IF s = <<>> THEN <<>>
    ELSE IF Head(s) = c THEN Remove(Tail(s), c)
    ELSE <<Head(s)>> \o Remove(Tail(s), c)

Digits == <<"0", "1", "2", "3", "4", "5", "6", "7", "8", "9">>

IsDigit(c) == \E i \in 1..10 : Digits[i] = c

DigitVal(c) == (CHOOSE i \in 1..10 : Digits[i] = c) - 1

RECURSIVE DigitsVal(_)
DigitsVal(s) ==
    IF s = <<>> THEN 0
    ELSE DigitsVal(SubSeq(s, 1, Len(s) - 1)) * 10 + DigitVal(s[Len(s)])

\* The two leading fraction digits as cents ("5" is 50 cents).
FracCents(f) ==
    IF f = <<>> THEN 0
    ELSE IF Len(f) = 1 THEN DigitVal(f[1]) * 10
    ELSE DigitVal(f[1]) * 10 + DigitVal(f[2])

\* float(s) in cents: Some(value), or NaN for ValueError.  Accepts an
\* optional sign, digits, and at most one decimal point with a digit on at
\* least one side; surrounding whitespace is ignored by float() itself.
ParseFloat(str) ==
    LET s    == Strip(str)
        neg  == s # <<>> /\ Head(s) = "-"
        body == IF neg THEN Tail(s) ELSE s
        dots == {i \in 1..Len(body) : body[i] = "."}
        dot  == IF dots = {} THEN Len(body) + 1 ELSE CHOOSE i \in dots : TRUE
        ip   == SubSeq(body, 1, dot - 1)
        fp   == SubSeq(body, dot + 1, Len(body))
        ok   == /\ Cardinality(dots) <= 1
                /\ \A i \in 1..Len(ip) : IsDigit(ip[i])
                /\ \A i \in 1..Len(fp) : IsDigit(fp[i])
                /\ Len(ip) + Len(fp) >= 1
        mag  == DigitsVal(ip) * 100 + FracCents(fp)
    IN  IF ~ok THEN NaN ELSE Some(IF neg THEN 0 - mag ELSE mag)

(***************************************************************************)
(* DataFrames.                                                             *)
(***************************************************************************)
VisitColumns == {"sales_rep", "customer_name", "erp_code", "time_spent"}

OrderColumns ==
    {"sales_rep", "customer_name", "customer_code", "order_id", "order_value"}

\* pd.DataFrame(rows): the columns are the keys of the row dicts, so an empty
\* list gives a frame with no columns.
DataFrame(rows, columns) ==
    [columns |-> IF rows = <<>> THEN {} ELSE columns, rows |-> rows]

EmptyFrame == [columns |-> {}, rows |-> <<>>]

(***************************************************************************)
(* DataProcessor.clean_visits                                              *)
(***************************************************************************)
clean_visit_row(v) ==
    LET erp_code == OrEmpty(GetOrNone(v, "erp_code"))
    IN  [sales_rep     |-> ToCell(Get(v, "rep_name", Str(<<>>))),
         customer_name |-> Some(Strip(OrEmpty(GetOrNone(v, "shop_name")).s)),
         erp_code      |-> Some(IF erp_code.s # <<>> THEN Strip(erp_code.s) ELSE <<>>),
         time_spent    |-> ToCell(Get(v, "timespent", Str(<<>>)))]

clean_visits(data) ==
    DataFrame([i \in 1..Len(data) |-> clean_visit_row(data[i])], VisitColumns)

(***************************************************************************)
(* DataProcessor.clean_orders                                              *)
(***************************************************************************)
\* o.get("balance", "0").replace(...) is evaluated outside the try block:
\* None and numbers have no .replace, which raises AttributeError.
balance_raises(o) == Get(o, "balance", Str(<<"0">>)).k # "str"

parse_balance(o) ==
    LET balance_str == Strip(Remove(Get(o, "balance", Str(<<"0">>)).s, ","))
        balance     == ParseFloat(balance_str)
    IN  IF IsNull(balance) THEN 0 ELSE balance[1]

clean_order_row(o) ==
    [sales_rep     |-> ToCell(Get(o, "sales_rep", Str(<<>>))),
     customer_name |-> Some(Strip(OrEmpty(GetOrNone(o, "customer_name")).s)),
     customer_code |-> ToCell(Get(o, "customer_code", Str(<<>>))),
     order_id      |-> Some(o.id),
     order_value   |-> Some(parse_balance(o))]

clean_orders_raises(data) == \E i \in 1..Len(data) : balance_raises(data[i])

clean_orders(data) ==
    DataFrame([i \in 1..Len(data) |-> clean_order_row(data[i])], OrderColumns)

(***************************************************************************)
(* pandas primitives used by merge_visits_orders                           *)
(***************************************************************************)
RECURSIVE Flatten(_)
Flatten(ss) == IF ss = <<>> THEN <<>> ELSE Head(ss) \o Flatten(Tail(ss))

RECURSIVE Ascending(_)
\* The elements of a finite set of integers, in ascending order (a boolean
\* mask keeps the selected rows in frame order).
Ascending(S) ==
    IF S = {} THEN <<>>
    ELSE LET lo == CHOOSE x \in S : \A y \in S : x <= y
         IN  <<lo>> \o Ascending(S \ {lo})

\* Series.combine_first on one label: keep a unless it is null.
CombineFirst(a, b) == IF IsNull(a) THEN b ELSE a

\* Join keys compare by value; pandas also pairs a null key with a null key.
KeyEq(a, b) == a = b

\* pd.merge(..., left_on="erp_code", right_on="customer_code", how="left",
\* suffixes=("_visit", "_order")): left order is kept, each visit is paired
\* with every order of equal key in order-frame order, and a visit without a
\* partner gives one row whose order columns are NaN.
MergeCodeRow(v, o) ==
    [sales_rep_visit     |-> v.sales_rep,
     customer_name_visit |-> v.customer_name,
     erp_code            |-> v.erp_code,
     time_spent          |-> v.time_spent,
     sales_rep_order     |-> o.sales_rep,
     customer_name_order |-> o.customer_name,
     customer_code       |-> o.customer_code,
     order_id            |-> o.order_id,
     order_value         |-> o.order_value]

NaNOrder ==
    [sales_rep |-> NaN, customer_name |-> NaN, customer_code |-> NaN,
     order_id |-> NaN, order_value |-> NaN]

\* A join that keeps one order per visit: the first of equal key.
MergeCodeFirstMatch(V, O) ==
    [i \in 1..Len(V) |->
        LET m == Ascending({j \in 1..Len(O) :
                                KeyEq(V[i].erp_code, O[j].customer_code)})
        IN  IF m = <<>> THEN MergeCodeRow(V[i], NaNOrder)
            ELSE MergeCodeRow(V[i], O[m[1]])]

MergeCode(V, O) ==
    Flatten([i \in 1..Len(V) |->
        LET m == Ascending({j \in 1..Len(O) :
                                KeyEq(V[i].erp_code, O[j].customer_code)})
        IN  IF m = <<>> THEN <<MergeCodeRow(V[i], NaNOrder)>>
            ELSE [j \in 1..Len(m) |-> MergeCodeRow(V[i], O[m[j]])]])

\* pd.merge(..., left_on="customer_name", right_on="customer_name",
\* how="left", ...): the key is one shared column.
MergeNameRow(v, o) ==
    [sales_rep_visit |-> v.sales_rep,
     customer_name   |-> v.customer_name,
     erp_code        |-> v.erp_code,
     time_spent      |-> v.time_spent,
     sales_rep_order |-> o.sales_rep,
     customer_code   |-> o.customer_code,
     order_id        |-> o.order_id,
     order_value     |-> o.order_value]

MergeName(V, O) ==
    Flatten([i \in 1..Len(V) |->
        LET m == Ascending({j \in 1..Len(O) :
                                KeyEq(V[i].customer_name, O[j].customer_name)})
        IN  IF m = <<>> THEN <<MergeNameRow(V[i], NaNOrder)>>
            ELSE [j \in 1..Len(m) |-> MergeNameRow(V[i], O[m[j]])]])

\* df_final[col] = df_final[col].combine_first(df_merge_name[col]): both
\* frames carry a fresh 0..n-1 index, so label i of the code merge is filled
\* from label i of the name merge; labels the name merge lacks stay as they
\* are and labels only the name merge has are dropped by the assignment.
FillFrom(A, B, i, col) ==
    CombineFirst(A[i][col], IF i <= Len(B) THEN B[i][col] ELSE NaN)

FinalColumns ==
    {"sales_rep_visit", "customer_name_visit", "erp_code", "time_spent",
     "sales_rep_order", "customer_name_order", "customer_code", "order_id",
     "order_value", "customer_name_final", "sales_rep_final"}

(***************************************************************************)
(* DataProcessor.merge_visits_orders                                       *)
(***************************************************************************)
\* KeyError when a join key is not a column of its frame.
merge_raises(dv, do) ==
    "erp_code" \notin dv.columns \/ "customer_code" \notin do.columns

merge_visits_orders(dv, do) ==
    LET df_merge_code == MergeCode(dv.rows, do.rows)
        df_merge_name == MergeName(dv.rows, do.rows)
        rows == [i \in 1..Len(df_merge_code) |->
            LET a   == df_merge_code[i]
                rep == FillFrom(df_merge_code, df_merge_name, i, "sales_rep_order")
            IN  [sales_rep_visit     |-> a.sales_rep_visit,
                 customer_name_visit |-> a.customer_name_visit,
                 erp_code            |-> a.erp_code,
                 time_spent          |-> a.time_spent,
                 customer_name_order |-> a.customer_name_order,
                 order_value   |-> FillFrom(df_merge_code, df_merge_name, i, "order_value"),
                 customer_code |-> FillFrom(df_merge_code, df_merge_name, i, "customer_code"),
                 sales_rep_order |-> rep,
                 order_id      |-> FillFrom(df_merge_code, df_merge_name, i, "order_id"),
                 customer_name_final |->
                     CombineFirst(a.customer_name_visit, a.customer_name_order),
                 sales_rep_final |-> CombineFirst(a.sales_rep_visit, rep)]]
    IN  [columns |-> FinalColumns, rows |-> rows]

(***************************************************************************)
(* DataProcessor.get_called_customers                                      *)
(***************************************************************************)
CalledColumns == OrderColumns \cup {"customer_called"}

\* No filter: every cleaned order counts as called-only.
get_called_customers_unfiltered(dv, do) ==
    [columns |-> CalledColumns,
     rows |-> [j \in 1..Len(do.rows) |->
        LET o == do.rows[j]
        IN  [sales_rep       |-> o.sales_rep,
             customer_name   |-> o.customer_name,
             customer_code   |-> o.customer_code,
             order_id        |-> o.order_id,
             order_value     |-> o.order_value,
             customer_called |-> o.customer_name]]]

\* A filter that only looks at the visits of the order's own rep.
get_called_customers_own_rep(dv, do) ==
    LET keep == Ascending({j \in 1..Len(do.rows) :
                    ~\E i \in 1..Len(dv.rows) :
                        /\ dv.rows[i].customer_name = do.rows[j].customer_name
                        /\ dv.rows[i].sales_rep = do.rows[j].sales_rep})
    IN  [columns |-> CalledColumns,
         rows |-> [j \in 1..Len(keep) |->
            LET o == do.rows[keep[j]]
            IN  [sales_rep       |-> o.sales_rep,
                 customer_name   |-> o.customer_name,
                 customer_code   |-> o.customer_code,
                 order_id        |-> o.order_id,
                 order_value     |-> o.order_value,
                 customer_called |-> o.customer_name]]]

\* A filter on the order's customer code against the visits' ERP codes.
get_called_customers_by_code(dv, do) ==
    LET visited_codes == {dv.rows[i].erp_code : i \in 1..Len(dv.rows)}
        keep == Ascending({j \in 1..Len(do.rows) :
                              do.rows[j].customer_code \notin visited_codes})
    IN  [columns |-> CalledColumns,
         rows |-> [j \in 1..Len(keep) |->
            LET o == do.rows[keep[j]]
            IN  [sales_rep       |-> o.sales_rep,
                 customer_name   |-> o.customer_name,
                 customer_code   |-> o.customer_code,
                 order_id        |-> o.order_id,
                 order_value     |-> o.order_value,
                 customer_called |-> o.customer_name]]]

get_called_customers(dv, do) ==
    LET visited_customers == {dv.rows[i].customer_name : i \in 1..Len(dv.rows)}
        keep == Ascending({j \in 1..Len(do.rows) :
                              do.rows[j].customer_name \notin visited_customers})
    IN  [columns |-> CalledColumns,
         rows |-> [j \in 1..Len(keep) |->
            LET o == do.rows[keep[j]]
            IN  [sales_rep       |-> o.sales_rep,
                 customer_name   |-> o.customer_name,
                 customer_code   |-> o.customer_code,
                 order_id        |-> o.order_id,
                 order_value     |-> o.order_value,
                 customer_called |-> o.customer_name]]]

(***************************************************************************)
(* DataProcessor.get_sales_reps                                            *)
(***************************************************************************)
\* The characters of the model in code-point order.
Chars ==
    <<" ", ",", "-", ".", "/", "0", "1", "2", "3", "4", "5", "6", "7", "8",
      "9", "A", "B", "D", "E", "K", "N", "S", "Z", "a", "c", "d", "e", "m",
      "n", "o", "r", "t", "u", "y">>

Ord(c) == CHOOSE i \in 1..Len(Chars) : Chars[i] = c

RECURSIVE StrLess(_, _)
\* Python's < on str: lexicographic by code point, a proper prefix is less.
StrLess(a, b) ==
    IF b = <<>> THEN FALSE
    ELSE IF a = <<>> THEN TRUE
    ELSE IF Head(a) # Head(b) THEN Ord(Head(a)) < Ord(Head(b))
    ELSE StrLess(Tail(a), Tail(b))

RECURSIVE Sorted(_)
\* sorted(set of str)
Sorted(S) ==
    IF S = {} THEN <<>>
    ELSE LET lo == CHOOSE x \in S : \A y \in S \ {x} : StrLess(x, y)
         IN  <<lo>> \o Sorted(S \ {lo})

\* Series.dropna() as a set of values.
DropNa(rows, col) ==
    {rows[i][col][1] : i \in {j \in 1..Len(rows) : ~IsNull(rows[j][col])}}

\* A rep list that forgets the reps known from called-only orders.
get_sales_reps_visits_only(df, dc) == Sorted(DropNa(df.rows, "sales_rep_final"))

\* A rep list in the iteration order of the set, which follows the hash
\* seed of the process: ascending in one run, descending in the next.
get_sales_reps_hash_order(df, dc) ==
    LET asc == Sorted(DropNa(df.rows, "sales_rep_final") \cup DropNa(dc.rows, "sales_rep"))
    IN  IF run_no = 2 THEN [i \in 1..Len(asc) |-> asc[Len(asc) + 1 - i]] ELSE asc

get_sales_reps(df, dc) ==
    Sorted(DropNa(df.rows, "sales_rep_final") \cup DropNa(dc.rows, "sales_rep"))

(***************************************************************************)
(* SummaryGenerator.generate_summary                                       *)
(***************************************************************************)
\* df[df[col] == value]: a null cell equals nothing.
Where(rows, col, value) ==
    LET keep == Ascending({j \in 1..Len(rows) : rows[j][col] = Some(value)})
    IN  [k \in 1..Len(keep) |-> rows[keep[k]]]

\* Series.nunique(): distinct non-null values.
NUnique(rows, col) == Cardinality(DropNa(rows, col))

RECURSIVE SumColumn(_, _)
\* Series.sum(): NaN is skipped and the empty sum is 0.
SumColumn(rows, col) ==
    IF rows = <<>> THEN 0
    ELSE (IF IsNull(Head(rows)[col]) THEN 0 ELSE Head(rows)[col][1])
            + SumColumn(Tail(rows), col)

\* A summary row that counts rows where the code counts distinct customers.
summary_row_counting_rows(rep, df, dc) ==
    LET rep_visits == Where(df.rows, "sales_rep_final", rep)
        rep_calls  == Where(dc.rows, "sales_rep", rep)
    IN  [SALESPERSON             |-> rep,
         CUSTOMERS_VISITED       |-> Len(rep_visits),
         ORDER_VALUE_FROM_VISITS |-> SumColumn(rep_visits, "order_value"),
         CUSTOMERS_CALLED        |-> Len(rep_calls),
         ORDER_VALUE_FROM_CALLS  |-> SumColumn(rep_calls, "order_value")]

summary_row(rep, df, dc) ==
    LET rep_visits == Where(df.rows, "sales_rep_final", rep)
        rep_calls  == Where(dc.rows, "sales_rep", rep)
    IN  [SALESPERSON             |-> rep,
         CUSTOMERS_VISITED       |-> NUnique(rep_visits, "customer_name_final"),
         ORDER_VALUE_FROM_VISITS |-> SumColumn(rep_visits, "order_value"),
         CUSTOMERS_CALLED        |-> NUnique(rep_calls, "customer_called"),
         ORDER_VALUE_FROM_CALLS  |-> SumColumn(rep_calls, "order_value")]

SummaryColumns ==
    {"SALESPERSON", "CUSTOMERS_VISITED", "ORDER_VALUE_FROM_VISITS",
     "CUSTOMERS_CALLED", "ORDER_VALUE_FROM_CALLS"}

generate_summary(rs, df, dc) ==
    DataFrame([k \in 1..Len(rs) |-> summary_row(rs[k], df, dc)], SummaryColumns)

(***************************************************************************)
(* RepSheetGenerator._build_customer_dict                                  *)
(*                                                                         *)
(* A dict is the sequence of its entries in insertion order; the key of an *)
(* entry is the cell the code uses as key.                                 *)
(***************************************************************************)
Entry(cust, visit_type, time_spent, orders) ==
    [cust |-> cust, visit_type |-> visit_type, time_spent |-> time_spent,
     orders |-> orders]

HasKey(customers, cust) == \E i \in 1..Len(customers) : customers[i].cust = cust

KeyIdx(customers, cust) == CHOOSE i \in 1..Len(customers) : customers[i].cust = cust

\* customers[cust] = entry
SetItem(customers, cust, entry) ==
    IF HasKey(customers, cust)
    THEN [customers EXCEPT ![KeyIdx(customers, cust)] = entry]
    ELSE Append(customers, entry)

\* customers.setdefault(cust, entry)
SetDefault(customers, cust, entry) ==
    IF HasKey(customers, cust) THEN customers ELSE Append(customers, entry)

\* One pass of the loop over rep_visits.iterrows().
seed_visit(customers, visit) ==
    LET cust == visit.customer_name_final
    IN  SetItem(customers, cust, Entry(cust, "Visited", visit.time_spent, <<>>))

\* An overlay that writes a fresh entry over a visited customer.
overlay_call_resetting_time(customers, call) ==
    LET cust == call.customer_called
    IN  IF ~HasKey(customers, cust)
        THEN Append(customers, Entry(cust, "Called", Some(<<>>), <<>>))
        ELSE IF customers[KeyIdx(customers, cust)].visit_type = "Visited"
        THEN SetItem(customers, cust, Entry(cust, "Visited & Called", Some(<<>>), <<>>))
        ELSE customers

\* One pass of the loop over rep_calls.iterrows().
overlay_call(customers, call) ==
    LET cust   == call.customer_called
        called == SetDefault(customers, cust, Entry(cust, "Called", Some(<<>>), <<>>))
        i      == KeyIdx(called, cust)
    IN  IF called[i].visit_type = "Visited"
        THEN [called EXCEPT ![i].visit_type = "Visited & Called"]
        ELSE called

\* `not cust` for a raw field: None and "" are skipped.
Falsy(v) == v.k = "null" \/ (v.k = "str" /\ v.s = <<>>)

\* A walk that assigns the "No Visit" entry instead of using setdefault.
walk_order_overwriting(customers, rep, order) ==
    LET sales_rep == GetOrNone(order, "sales_rep")
        cust      == GetOrNone(order, "customer_name")
    IN  IF ~(sales_rep.k = "str" /\ sales_rep.s = rep) THEN customers
        ELSE IF Falsy(cust) THEN customers
        ELSE SetItem(customers, Some(cust.s),
                     Entry(Some(cust.s), "No Visit", Some(<<>>), <<order.id>>))

\* A walk that does not look at the order's rep.
walk_order_any_rep(customers, rep, order) ==
    LET cust == GetOrNone(order, "customer_name")
    IN  IF Falsy(cust) THEN customers
        ELSE LET key   == Some(cust.s)
                 added == SetDefault(customers, key,
                                     Entry(key, "No Visit", Some(<<>>), <<>>))
                 i     == KeyIdx(added, key)
             IN  [added EXCEPT ![i].orders = Append(@, order.id)]

\* One pass of the loop over orders_data (the raw records).
walk_order(customers, rep, order) ==
    LET sales_rep == GetOrNone(order, "sales_rep")
        cust      == GetOrNone(order, "customer_name")
    IN  IF ~(sales_rep.k = "str" /\ sales_rep.s = rep) THEN customers
        ELSE IF Falsy(cust) THEN customers
        ELSE LET key   == Some(cust.s)
                 added == SetDefault(customers, key,
                                     Entry(key, "No Visit", Some(<<>>), <<>>))
                 i     == KeyIdx(added, key)
             IN  [added EXCEPT ![i].orders = Append(@, order.id)]

RECURSIVE seed_visits(_, _)
seed_visits(customers, rows) ==
    IF rows = <<>> THEN customers
    ELSE seed_visits(seed_visit(customers, Head(rows)), Tail(rows))

RECURSIVE overlay_calls(_, _)
overlay_calls(customers, rows) ==
    IF rows = <<>> THEN customers
    ELSE overlay_calls(overlay_call(customers, Head(rows)), Tail(rows))

RECURSIVE walk_orders(_, _, _)
walk_orders(customers, rep, orders) ==
    IF orders = <<>> THEN customers
    ELSE walk_orders(walk_order(customers, rep, Head(orders)), rep, Tail(orders))

build_customer_dict(rep, rep_visits, rep_calls, orders) ==
    walk_orders(overlay_calls(seed_visits(<<>>, rep_visits), rep_calls), rep, orders)

(***************************************************************************)
(* RepSheetGenerator.create_rep_sheet and the openpyxl workbook            *)
(*                                                                         *)
(* A sheet is [title, made_for, table, data]: made_for is the rep whose    *)
(* create_sheet call made it (<<>> for the summary sheet), table the rows  *)
(* to_excel wrote, data the rep blocks _write_rep_data wrote into it.      *)
(***************************************************************************)
SheetNameLimit == 31

Summary == <<"S", "u", "m", "m", "a", "r", "y">>

\* str.replace of one character by another.
Replace(s, old, new) == [i \in 1..Len(s) |-> IF s[i] = old THEN new ELSE s[i]]

sheet_name(rep) ==
    LET name == Replace(Replace(rep, ".", "_"), " ", "_")
    IN  SubSeq(name, 1, IF Len(name) < SheetNameLimit THEN Len(name) ELSE SheetNameLimit)

\* str.lower on the characters of the model.
Lower(s) ==
    [i \in 1..Len(s) |->
        CASE s[i] = "A" -> "a" [] s[i] = "D" -> "d" [] s[i] = "E" -> "e"
          [] s[i] = "N" -> "n" [] OTHER -> s[i]]

Titles(b) == {b[i].title : i \in 1..Len(b)}

\* openpyxl avoid_duplicate_name: a title already taken (case-insensitively)
\* gets the highest numeric suffix in use plus one.
avoid_duplicate_name(names, value) ==
    IF \E n \in names : Lower(n) = Lower(value)
    THEN LET used    == {d \in 1..8 : \E n \in names :
                             Lower(n) = Lower(value \o <<Digits[d + 1]>>)}
             highest == IF used = {} THEN 0 ELSE CHOOSE d \in used : \A e \in used : e <= d
         IN  value \o <<Digits[highest + 2]>>
    ELSE value

\* Workbook.create_sheet(title): an empty title becomes "Sheet".
create_sheet(b, title, rep) ==
    LET wanted == IF title = <<>> THEN <<"S", "h", "e", "e", "t">> ELSE title
    IN  Append(b, [title    |-> avoid_duplicate_name(Titles(b), wanted),
                   made_for |-> Some(rep),
                   table    |-> <<>>,
                   data     |-> <<>>])

\* writer.book[sheet_name]: the first sheet of that exact title, or KeyError.
HasSheet(b, title) == \E i \in 1..Len(b) : b[i].title = title

SheetIdx(b, title) ==
    CHOOSE i \in 1..Len(b) : b[i].title = title /\ \A j \in 1..(i - 1) : b[j].title # title

\* The exception create_rep_sheet ends with, "none" when it returns: a title
\* with a character openpyxl forbids is a ValueError of create_sheet.
create_rep_sheet_raises(b, rep) ==
    IF \E i \in 1..Len(sheet_name(rep)) : sheet_name(rep)[i] = "/" THEN "ValueError"
    ELSE IF ~HasSheet(create_sheet(b, sheet_name(rep), rep), sheet_name(rep))
         THEN "KeyError"
         ELSE "none"

\* The workbook after create_rep_sheet; the product rows of a block come
\* from get_order_details and are modelled with _write_rep_data.
create_rep_sheet(b, rep, df, dc, orders) ==
    LET rep_visits == Where(df.rows, "sales_rep_final", rep)
        rep_calls  == Where(dc.rows, "sales_rep", rep)
        customers  == build_customer_dict(rep, rep_visits, rep_calls, orders)
        created    == create_sheet(b, sheet_name(rep), rep)
        at         == SheetIdx(created, sheet_name(rep))
    IN  [created EXCEPT ![at].data = Append(@, [rep |-> rep, customers |-> customers])]

(***************************************************************************)
(* RepSheetGenerator._fetch_order_items                                    *)
(*                                                                         *)
(* A response of get_order_details is [kind, entries]: kind "raise" when   *)
(* the call raises, "no_entries" when the JSON has no "entries" key,       *)
(* "null_entries" when the key holds null (extend(None) raises inside the  *)
(* try), "ok" otherwise.  An item is [order_id, n], the n-th entry of the  *)
(* order; items are taken to be well formed.                               *)
(***************************************************************************)
Item(order_id, n) == [order_id |-> order_id, n |-> n]

Responses(order_id) ==
    {[kind |-> "raise", entries |-> <<>>],
     [kind |-> "no_entries", entries |-> <<>>],
     [kind |-> "null_entries", entries |-> <<>>],
     [kind |-> "ok", entries |-> <<>>],
     [kind |-> "ok", entries |-> <<Item(order_id, 1)>>],
     [kind |-> "ok", entries |-> <<Item(order_id, 1), Item(order_id, 2)>>]}

\* The pass ends in the except branch.
fetch_fails(response) == response.kind \in {"raise", "null_entries"}

\* A pass that gives up what it has gathered when a fetch fails.
fetch_pass_dropping(items, response) ==
    IF fetch_fails(response) THEN <<>> ELSE items \o response.entries

\* all_items after one pass of the loop over order_ids.
fetch_pass(items, response) ==
    IF fetch_fails(response) THEN items ELSE items \o response.entries

(***************************************************************************)
(* main.py: generate_and_send_report                                       *)
(***************************************************************************)
\* A fetch that lets the exception pass as if the data had arrived.
after_fetch_swallowing(ok, next) == next

\* A fetch exception that escapes generate_and_send_report and ends the
\* process.
after_fetch_propagating(ok, next) == IF ok THEN next ELSE "exit"

\* Where generate_and_send_report goes after a call inside its try block:
\* on, or to the except branch that returns False.
after_fetch(ok, next) == IF ok THEN next ELSE "returned"

\* How a call of generate_detailed_report ends: it returns, or it raises
\* while processing the data (before the ExcelWriter is opened), inside the
\* with block of the writer, or in the export of the summary files.
GenerateOutcomes == {"ok", "raise_processing", "raise_writing", "raise_export"}

\* The output file after the call made by run: the old file is removed
\* before the processing starts; the writer saves the workbook when its
\* with block is left, also by an exception, unless that save fails too.
file_after_generate(outcome, run, saved) ==
    IF outcome = "raise_processing" THEN <<>>
    ELSE IF outcome = "raise_writing" /\ ~saved THEN <<>>
    ELSE <<run>>

\* A run that goes on to the email step whether the report was generated
\* or not.
after_generate_regardless(ok, send) == IF send THEN "email" ELSE "returned"

\* Where generate_and_send_report goes after generate_detailed_report: to
\* send_report when it returned and SEND_EMAIL is on.
after_generate(ok, send) == IF ok /\ send THEN "email" ELSE "returned"

(***************************************************************************)
(* send_report.py: EmailConfig.validate, EmailBuilder, EmailSender.send    *)
(*                                                                         *)
(* The environment of a call is a record: password, sender, to (is the     *)
(* variable set), readable (can pd.read_excel read the summary sheet),     *)
(* summary (the rows read, each [visited, called]), preview (the           *)
(* SAVE_HTML_PREVIEW switch: "off", "ok", or "write_fails" when the        *)
(* preview file cannot be written), attach_ok (can _attach_file read the   *)
(* file) and fault (the SMTP operation that raises, "none" when none).     *)
(***************************************************************************)
\* A validation that does not look at EMAIL_PASSWORD.
email_config_valid_ignoring_password(env) == env.sender /\ env.to

\* EmailConfig.validate() returns without raising.
email_config_valid(env) == env.password /\ env.sender /\ env.to

RECURSIVE total_customers(_)
\* totals["total_customers_visited"] + totals["total_customers_called"].
total_customers(summary) ==
    IF summary = <<>> THEN 0
    ELSE Head(summary).visited + Head(summary).called + total_customers(Tail(summary))

\* _build_html_body raises: the metrics cards divide by the number of rows
\* and by the total number of customers.
build_html_body_raises(summary) ==
    Len(summary) = 0 \/ total_customers(summary) = 0

\* The operations of EmailSender.send, in order.
SmtpSteps == <<"connect", "starttls", "login", "send_message">>

\* The operations attempted when fault is the one that raises.
smtp_attempted(fault) ==
    IF fault = "none" THEN SmtpSteps
    ELSE SubSeq(SmtpSteps, 1, CHOOSE i \in 1..Len(SmtpSteps) : SmtpSteps[i] = fault)

(***************************************************************************)
(* Inputs: the records the upstream API can deliver.                       *)
(***************************************************************************)
Ana == <<"A", "n", "a">>

Bo == <<"B", "o">>

Acme == <<"A", "c", "m", "e">>

Zed == <<"Z", "e", "d">>

Dot == <<"D", "o", "t">>

Kay == <<"K", "a", "y">>

E1 == <<"E", "1">>

E2 == <<"E", "2">>

E3 == <<"E", "3">>

Visit(rep, shop, erp, spent) ==
    [rep_name |-> rep, shop_name |-> shop, erp_code |-> erp, timespent |-> spent]

VisitCatalog ==
    { Visit(Str(Ana), Str(Acme), Str(E1), Str(<<"3", "0", "m">>)),
      Visit(Str(Ana), Str(Zed), Str(E2), Str(<<"5", "m">>)),
      Visit(Str(Bo), Str(<<" ">> \o Acme \o <<" ">>), Absent, Absent),
      Visit(Str(Bo), Str(Dot), Str(<<" ">>), Str(<<"5", "m">>)),
      Visit(Null, Str(Zed), Null, Str(<<"3", "0", "m">>)),
      Visit(Absent, Null, Str(E1 \o <<" ">>), Null) }

Order(rep, name, code, balance) ==
    [sales_rep |-> rep, customer_name |-> name, customer_code |-> code,
     balance |-> balance, id |-> 0]

OrderCatalog ==
    { Order(Str(Ana), Str(Acme), Str(E1), Str(<<"5", "0", "0", ".", "0", "0">>)),
      Order(Str(Bo), Str(Dot), Str(E1),
            Str(<<"1", ",", "2", "3", "4", ".", "5", "0">>)),
      Order(Str(Bo), Str(Zed \o <<" ">>), Str(E3), Str(<<"-", "5">>)),
      Order(Str(Ana), Str(Kay), Str(<<>>), Str(<<"N", "/", "A">>)),
      Order(Null, Null, Absent, Absent),
      Order(Str(Ana), Str(Acme), Str(E2), Null),
      Order(Str(Bo), Str(Zed), Str(E2), IntVal(<<"1", "0", "0">>)) }

\* The order ids of one response are distinct.
OrderId(i) == 100 + i

VisitLists == UNION {[1..n -> VisitCatalog] : n \in 0..MaxVisits}

OrderLists ==
    UNION {{[i \in 1..n |-> [f[i] EXCEPT !.id = OrderId(i)]] :
                f \in [1..n -> OrderCatalog]} : n \in 0..MaxOrders}

\* No call of _write_rep_data is under way.
FetchIdle ==
    /\ order_i = 0
    /\ all_items = <<>>
    /\ log = <<>>
    /\ ws = <<>>
    /\ api_calls = <<>>

\* No run has written a file or sent an email.
FileIdle ==
    /\ run_no = 0
    /\ output_file = <<>>
    /\ sent = <<>>

\* send_report is not running.
MailIdle ==
    /\ send_env = <<>>
    /\ smtp = <<>>
    /\ msg = <<>>

\* main.py is not running.
MainIdle ==
    /\ run_mode = "once"
    /\ config_valid = TRUE
    /\ send_email = FALSE
    /\ today = 0
    /\ days = 0
    /\ run_calls = <<>>
    /\ failed = "none"
    /\ result = "none"
    /\ exit_code = -1

(***************************************************************************)
(* generate_detailed_report: the processing steps, in program order.       *)
(***************************************************************************)
Init ==
    /\ visits_data \in VisitLists
    /\ orders_data \in OrderLists
    /\ df_visits = EmptyFrame
    /\ df_orders = EmptyFrame
    /\ df_final = EmptyFrame
    /\ df_called = EmptyFrame
    /\ reps = <<>>
    /\ df_summary = EmptyFrame
    /\ pc = "clean_visits"
    /\ raised = "none"
    /\ book = <<>>
    /\ next_rep = 1
    /\ cur_rep = <<>>
    /\ cur_visits = <<>>
    /\ cur_calls = <<>>
    /\ cur_customers = <<>>
    /\ row = 0
    /\ FetchIdle
    /\ MainIdle
    /\ FileIdle
    /\ MailIdle
    /\ first_run = <<>>

CleanVisits ==
    /\ pc = "clean_visits"
    /\ df_visits' = clean_visits(visits_data)
    /\ pc' = "clean_orders"
    /\ UNCHANGED <<visits_data, orders_data, df_orders, df_final, df_called,
                   reps, df_summary, raised>>
    /\ UNCHANGED writerVars
    /\ UNCHANGED outsideReport

CleanOrders ==
    /\ pc = "clean_orders"
    /\ IF clean_orders_raises(orders_data)
       THEN /\ raised' = "AttributeError"
            /\ pc' = "raised"
            /\ UNCHANGED df_orders
       ELSE /\ df_orders' = clean_orders(orders_data)
            /\ pc' = "merge"
            /\ UNCHANGED raised
    /\ UNCHANGED <<visits_data, orders_data, df_visits, df_final, df_called,
                   reps, df_summary>>
    /\ UNCHANGED writerVars
    /\ UNCHANGED outsideReport

MergeVisitsOrders ==
    /\ pc = "merge"
    /\ IF merge_raises(df_visits, df_orders)
       THEN /\ raised' = "KeyError"
            /\ pc' = "raised"
            /\ UNCHANGED df_final
       ELSE /\ df_final' = merge_visits_orders(df_visits, df_orders)
            /\ pc' = "called"
            /\ UNCHANGED raised
    /\ UNCHANGED <<visits_data, orders_data, df_visits, df_orders, df_called,
                   reps, df_summary>>
    /\ UNCHANGED writerVars
    /\ UNCHANGED outsideReport

GetCalledCustomers ==
    /\ pc = "called"
    /\ df_called' = get_called_customers(df_visits, df_orders)
    /\ pc' = "reps"
    /\ UNCHANGED <<visits_data, orders_data, df_visits, df_orders, df_final,
                   reps, df_summary, raised>>
    /\ UNCHANGED writerVars
    /\ UNCHANGED outsideReport

GetSalesReps ==
    /\ pc = "reps"
    /\ reps' = get_sales_reps(df_final, df_called)
    /\ pc' = "summary"
    /\ UNCHANGED <<visits_data, orders_data, df_visits, df_orders, df_final,
                   df_called, df_summary, raised>>
    /\ UNCHANGED writerVars
    /\ UNCHANGED outsideReport

GenerateSummary ==
    /\ pc = "summary"
    /\ df_summary' = generate_summary(reps, df_final, df_called)
    /\ pc' = "write_summary"
    /\ UNCHANGED <<visits_data, orders_data, df_visits, df_orders, df_final,
                   df_called, reps, raised>>
    /\ UNCHANGED writerVars
    /\ UNCHANGED outsideReport

\* df_summary.to_excel(writer, sheet_name="Summary") on the fresh workbook.
WriteSummarySheet ==
    /\ pc = "write_summary"
    /\ book' = <<[title |-> Summary, made_for |-> NaN,
                  table |-> df_summary.rows, data |-> <<>>]>>
    /\ next_rep' = 1
    /\ pc' = "rep_sheets"
    /\ UNCHANGED <<visits_data, orders_data, df_visits, df_orders, df_final,
                   df_called, reps, df_summary, raised>>
    /\ UNCHANGED outsideReport

\* One pass of `for rep in reps: rep_gen.create_rep_sheet(...)`.
CreateRepSheet ==
    /\ pc = "rep_sheets"
    /\ next_rep <= Len(reps)
    /\ LET rep == reps[next_rep]
       IN  IF create_rep_sheet_raises(book, rep) # "none"
           THEN /\ raised' = create_rep_sheet_raises(book, rep)
                /\ pc' = "raised"
                /\ UNCHANGED <<book, next_rep>>
           ELSE /\ book' = create_rep_sheet(book, rep, df_final, df_called, orders_data)
                /\ next_rep' = next_rep + 1
                /\ UNCHANGED <<pc, raised>>
    /\ UNCHANGED <<visits_data, orders_data, df_visits, df_orders, df_final,
                   df_called, reps, df_summary>>
    /\ UNCHANGED outsideReport

\* The loop is over: the workbook is saved and the summary is exported.
ExportSummary ==
    /\ pc = "rep_sheets"
    /\ next_rep > Len(reps)
    /\ pc' = "done"
    /\ UNCHANGED <<visits_data, orders_data, df_visits, df_orders, df_final,
                   df_called, reps, df_summary, raised, book, next_rep>>
    /\ UNCHANGED outsideReport

Next ==
    \/ CleanVisits
    \/ CleanOrders
    \/ MergeVisitsOrders
    \/ GetCalledCustomers
    \/ GetSalesReps
    \/ GenerateSummary
    \/ WriteSummarySheet
    \/ CreateRepSheet
    \/ ExportSummary

Spec == Init /\ [][Next]_vars

(***************************************************************************)
(* RepSheetGenerator._build_customer_dict, one loop pass per step, on      *)
(* arguments drawn from small sets: rows of rep_visits and rep_calls with  *)
(* the columns the function reads, and raw orders.                         *)
(***************************************************************************)
RepVisitRows ==
    {[customer_name_final |-> Some(Acme), time_spent |-> Some(<<"3", "0", "m">>)],
     [customer_name_final |-> Some(Acme), time_spent |-> Some(<<"5", "m">>)],
     [customer_name_final |-> Some(Zed), time_spent |-> Some(<<"5", "m">>)]}

RepCallRows == {[customer_called |-> Some(Zed)], [customer_called |-> Some(Kay)]}

RawOrderCatalog ==
    {Order(Str(Ana), Str(Acme), Str(E1), Str(<<"0">>)),
     Order(Str(Ana), Str(<<>>), Str(E1), Str(<<"0">>)),
     Order(Str(Ana), Null, Str(E1), Str(<<"0">>)),
     Order(Str(Bo), Str(Acme), Str(E1), Str(<<"0">>))}

SeqsUpTo(S, n) == UNION {[1..k -> S] : k \in 0..n}

RawOrderLists ==
    {[i \in 1..Len(f) |-> [f[i] EXCEPT !.id = OrderId(i)]] :
        f \in SeqsUpTo(RawOrderCatalog, MaxOrders)}

DictInit ==
    /\ cur_rep = Ana
    /\ cur_visits \in SeqsUpTo(RepVisitRows, MaxRepVisits)
    /\ cur_calls \in SeqsUpTo(RepCallRows, MaxRepCalls)
    /\ orders_data \in RawOrderLists
    /\ cur_customers = <<>>
    /\ row = 0
    /\ pc = "build_customer_dict"
    /\ visits_data = <<>>
    /\ df_visits = EmptyFrame
    /\ df_orders = EmptyFrame
    /\ df_final = EmptyFrame
    /\ df_called = EmptyFrame
    /\ reps = <<>>
    /\ df_summary = EmptyFrame
    /\ raised = "none"
    /\ book = <<>>
    /\ next_rep = 1
    /\ FetchIdle
    /\ MainIdle
    /\ FileIdle
    /\ MailIdle
    /\ first_run = <<>>

\* row counts the loop passes made so far, over the three loops in turn.
InSeed == row < Len(cur_visits)

InOverlay == Len(cur_visits) <= row /\ row < Len(cur_visits) + Len(cur_calls)

InWalk ==
    /\ Len(cur_visits) + Len(cur_calls) <= row
    /\ row < Len(cur_visits) + Len(cur_calls) + Len(orders_data)

SeedVisit ==
    /\ pc = "build_customer_dict"
    /\ InSeed
    /\ cur_customers' = seed_visit(cur_customers, cur_visits[row + 1])
    /\ row' = row + 1
    /\ UNCHANGED <<pc, cur_rep, cur_visits, cur_calls, orders_data>>
    /\ UNCHANGED reportVars

OverlayCall ==
    /\ pc = "build_customer_dict"
    /\ InOverlay
    /\ cur_customers' = overlay_call(cur_customers, cur_calls[row - Len(cur_visits) + 1])
    /\ row' = row + 1
    /\ UNCHANGED <<pc, cur_rep, cur_visits, cur_calls, orders_data>>
    /\ UNCHANGED reportVars

WalkOrder ==
    /\ pc = "build_customer_dict"
    /\ InWalk
    /\ cur_customers' = walk_order(cur_customers, cur_rep,
                        orders_data[row - Len(cur_visits) - Len(cur_calls) + 1])
    /\ row' = row + 1
    /\ UNCHANGED <<pc, cur_rep, cur_visits, cur_calls, orders_data>>
    /\ UNCHANGED reportVars

ReturnCustomers ==
    /\ pc = "build_customer_dict"
    /\ row = Len(cur_visits) + Len(cur_calls) + Len(orders_data)
    /\ pc' = "returned"
    /\ UNCHANGED <<cur_rep, cur_visits, cur_calls, orders_data, cur_customers, row>>
    /\ UNCHANGED reportVars

DictNext ==
    \/ SeedVisit
    \/ OverlayCall
    \/ WalkOrder
    \/ ReturnCustomers

SpecDict == DictInit /\ [][DictNext]_vars

(***************************************************************************)
(* RepSheetGenerator._write_rep_data and _fetch_order_items, one loop pass *)
(* per step, on a customers dict of up to two customers that share up to   *)
(* MaxOrders order ids.  The worksheet is the sequence of customer blocks  *)
(* written, each [cust, products]; an empty products list stands for the   *)
(* "No orders" row.                                                        *)
(***************************************************************************)
SheetDicts ==
    UNION {{<<>>,
            <<Entry(Some(Acme), "Visited", Some(<<"5", "m">>),
                    [i \in 1..n |-> OrderId(i)])>>} \cup
           {<<Entry(Some(Acme), "Visited", Some(<<"5", "m">>),
                    [i \in 1..k |-> OrderId(i)]),
              Entry(Some(Zed), "No Visit", Some(<<>>),
                    [i \in 1..(n - k) |-> OrderId(k + i)])>> : k \in 0..n}
           : n \in 0..MaxOrders}

SheetInit ==
    /\ cur_rep = Ana
    /\ cur_customers \in SheetDicts
    /\ row = 0
    /\ FetchIdle
    /\ MainIdle
    /\ FileIdle
    /\ MailIdle
    /\ first_run = <<>>
    /\ pc = "write_rep_data"
    /\ raised = "none"
    /\ visits_data = <<>>
    /\ orders_data = <<>>
    /\ df_visits = EmptyFrame
    /\ df_orders = EmptyFrame
    /\ df_final = EmptyFrame
    /\ df_called = EmptyFrame
    /\ reps = <<>>
    /\ df_summary = EmptyFrame
    /\ book = <<>>
    /\ next_rep = 1
    /\ cur_visits = <<>>
    /\ cur_calls = <<>>

\* The customer header row is written and _fetch_order_items is entered.
WriteCustomerHeader ==
    /\ pc = "write_rep_data"
    /\ row < Len(cur_customers)
    /\ order_i' = 0
    /\ all_items' = <<>>
    /\ pc' = "fetch_order_items"
    /\ UNCHANGED <<cur_rep, cur_customers, row, log, ws, api_calls>>
    /\ UNCHANGED outsideSheet

\* One pass of `for order_id in order_ids`, whatever the API answers.
FetchOrderDetails ==
    /\ pc = "fetch_order_items"
    /\ order_i < Len(cur_customers[row + 1].orders)
    /\ LET order_id == cur_customers[row + 1].orders[order_i + 1]
       IN  \E response \in Responses(order_id) :
               /\ api_calls' = Append(api_calls, [order_id |-> order_id,
                                                  response |-> response])
               /\ all_items' = fetch_pass(all_items, response)
               /\ log' = IF fetch_fails(response)
                         THEN Append(log, [order_id |-> order_id, rep |-> cur_rep])
                         ELSE log
    /\ order_i' = order_i + 1
    /\ UNCHANGED <<pc, cur_rep, cur_customers, row, ws>>
    /\ UNCHANGED outsideSheet

\* _fetch_order_items returns; the product rows or the "No orders" row of
\* the customer are written.
WriteCustomerBlock ==
    /\ pc = "fetch_order_items"
    /\ order_i = Len(cur_customers[row + 1].orders)
    /\ ws' = Append(ws, [cust |-> cur_customers[row + 1].cust, products |-> all_items])
    /\ row' = row + 1
    /\ pc' = "write_rep_data"
    /\ UNCHANGED <<cur_rep, cur_customers, order_i, all_items, log, api_calls>>
    /\ UNCHANGED outsideSheet

ReturnSheet ==
    /\ pc = "write_rep_data"
    /\ row = Len(cur_customers)
    /\ pc' = "sheet_written"
    /\ UNCHANGED <<cur_rep, cur_customers, row>>
    /\ UNCHANGED fetchVars
    /\ UNCHANGED outsideSheet

SheetNext ==
    \/ WriteCustomerHeader
    \/ FetchOrderDetails
    \/ WriteCustomerBlock
    \/ ReturnSheet

SpecSheet == SheetInit /\ [][SheetNext]_vars

(***************************************************************************)
(* main.py: main, run_scheduler, scheduled_job, generate_and_send_report.  *)
(* The upstream API, the report generator and the mail step are calls      *)
(* whose outcome is open; the scheduler's clock moves one day per step and *)
(* is followed for MaxDays days.  Weekdays are 0 (Monday) to 6 (Sunday).   *)
(***************************************************************************)
MainInit ==
    /\ run_mode \in {"once", "scheduled", "other"}
    /\ config_valid \in BOOLEAN
    /\ send_email \in BOOLEAN
    /\ today \in 0..6
    /\ days = 0
    /\ run_calls = <<>>
    /\ failed = "none"
    /\ result = "none"
    /\ exit_code = -1
    /\ pc = "main"
    /\ raised = "none"
    /\ visits_data = <<>>
    /\ orders_data = <<>>
    /\ df_visits = EmptyFrame
    /\ df_orders = EmptyFrame
    /\ df_final = EmptyFrame
    /\ df_called = EmptyFrame
    /\ reps = <<>>
    /\ df_summary = EmptyFrame
    /\ book = <<>>
    /\ next_rep = 1
    /\ cur_rep = <<>>
    /\ cur_visits = <<>>
    /\ cur_calls = <<>>
    /\ cur_customers = <<>>
    /\ row = 0
    /\ FetchIdle
    /\ run_no = 0
    /\ output_file \in {<<>>, <<0>>}
    /\ sent = <<>>
    /\ MailIdle
    /\ first_run = <<>>

\* main(): dispatch on RUN_MODE.
StartMain ==
    /\ pc = "main"
    /\ pc' = CASE run_mode = "once" -> "validate"
              [] run_mode = "scheduled" -> "scheduler"
              [] OTHER -> "exit"
    /\ exit_code' = IF run_mode \in {"once", "scheduled"} THEN exit_code ELSE 1
    /\ UNCHANGED <<run_mode, config_valid, send_email, today, days, run_calls,
                   failed, result>>
    /\ UNCHANGED fileVars
    /\ UNCHANGED outsideMain

\* run_scheduler: the next day's report time comes; the job is scheduled
\* for Monday to Friday only.
SchedulerTick ==
    /\ pc = "scheduler"
    /\ days < MaxDays
    /\ days' = days + 1
    /\ today' = (today + 1) % 7
    /\ pc' = IF today' < 5 THEN "scheduled_job" ELSE "scheduler"
    /\ UNCHANGED <<run_mode, config_valid, send_email, run_calls, failed, result,
                   exit_code>>
    /\ UNCHANGED fileVars
    /\ UNCHANGED outsideMain

\* scheduled_job: is_weekday() guards the run.
ScheduledJob ==
    /\ pc = "scheduled_job"
    /\ pc' = IF today < 5 THEN "validate" ELSE "scheduler"
    /\ UNCHANGED mainVars
    /\ UNCHANGED fileVars
    /\ UNCHANGED outsideMain

\* generate_and_send_report begins: Config.validate().
Validate ==
    /\ pc = "validate"
    /\ run_calls' = <<>>
    /\ IF config_valid
       THEN /\ pc' = "fetch_orders"
            /\ failed' = "none"
            /\ result' = "none"
       ELSE /\ pc' = "returned"
            /\ failed' = "validate"
            /\ result' = "False"
    /\ UNCHANGED <<run_mode, config_valid, send_email, today, days, exit_code>>
    /\ run_no' = run_no + 1
    /\ UNCHANGED <<output_file, sent>>
    /\ UNCHANGED outsideMain

\* fetch_orders_data: one call of get_orders; an exception is logged and
\* raised again.
FetchOrders ==
    /\ pc = "fetch_orders"
    /\ run_calls' = Append(run_calls, "get_orders")
    /\ \E ok \in BOOLEAN :
          /\ pc' = after_fetch(ok, "fetch_timesheet")
          /\ failed' = IF ok THEN failed ELSE "get_orders"
          /\ result' = IF ok THEN result ELSE "False"
    /\ UNCHANGED <<run_mode, config_valid, send_email, today, days, exit_code>>
    /\ UNCHANGED fileVars
    /\ UNCHANGED outsideMain

\* fetch_timesheet_data: one call of get_timesheet.
FetchTimesheet ==
    /\ pc = "fetch_timesheet"
    /\ run_calls' = Append(run_calls, "get_timesheet")
    /\ \E ok \in BOOLEAN :
          /\ pc' = after_fetch(ok, "generate")
          /\ failed' = IF ok THEN failed ELSE "get_timesheet"
          /\ result' = IF ok THEN result ELSE "False"
    /\ UNCHANGED <<run_mode, config_valid, send_email, today, days, exit_code>>
    /\ UNCHANGED fileVars
    /\ UNCHANGED outsideMain

\* generate_detailed_report(visits_data, orders_data, report_config); when
\* it returns and SEND_EMAIL is off the run returns True.
GenerateReport ==
    /\ pc = "generate"
    /\ run_calls' = Append(run_calls, "generate_detailed_report")
    /\ \E outcome \in GenerateOutcomes, saved \in BOOLEAN :
          LET ok == outcome = "ok"
          IN  /\ pc' = after_generate(ok, send_email)
              /\ failed' = IF ok THEN failed ELSE "generate_detailed_report"
              /\ result' = IF ~ok THEN "False"
                           ELSE IF send_email THEN result ELSE "True"
              /\ output_file' = file_after_generate(outcome, run_no, saved)
    /\ UNCHANGED <<run_mode, config_valid, send_email, today, days, exit_code>>
    /\ UNCHANGED <<run_no, sent>>
    /\ UNCHANGED outsideMain

\* send_report(date_str=display_date) returns a bool; a failure is only
\* logged as a warning and the run returns True.  Without the Excel file
\* send_report returns False; a message leaves with the file attached, or
\* without it when the file cannot be read for the attachment.
SendReport ==
    /\ pc = "email"
    /\ run_calls' = Append(run_calls, "send_report")
    /\ \E email_success \in BOOLEAN, attached \in BOOLEAN :
          /\ output_file = <<>> => ~email_success
          /\ failed' = IF email_success THEN failed ELSE "send_report"
          /\ sent' = IF email_success
                     THEN Append(sent, [run |-> run_no,
                                        attachment |-> IF attached THEN output_file
                                                       ELSE <<>>])
                     ELSE sent
    /\ result' = "True"
    /\ pc' = "returned"
    /\ UNCHANGED <<run_mode, config_valid, send_email, today, days, exit_code>>
    /\ UNCHANGED <<run_no, output_file>>
    /\ UNCHANGED outsideMain

\* generate_and_send_report has returned: main() exits in mode "once", the
\* scheduler loop goes on in mode "scheduled".
ReturnToCaller ==
    /\ pc = "returned"
    /\ IF run_mode = "once"
       THEN /\ pc' = "exit"
            /\ exit_code' = IF result = "True" THEN 0 ELSE 1
       ELSE /\ pc' = "scheduler"
            /\ UNCHANGED exit_code
    /\ UNCHANGED <<run_mode, config_valid, send_email, today, days, run_calls,
                   failed, result>>
    /\ UNCHANGED fileVars
    /\ UNCHANGED outsideMain

MainNext ==
    \/ StartMain
    \/ SchedulerTick
    \/ ScheduledJob
    \/ Validate
    \/ FetchOrders
    \/ FetchTimesheet
    \/ GenerateReport
    \/ SendReport
    \/ ReturnToCaller

SpecMain == MainInit /\ [][MainNext]_vars

(***************************************************************************)
(* generate_detailed_report on visits of reps whose names meet in the      *)
(* sheet name: "A B" and "A.B" both give "A_B", two names that differ in   *)
(* the 32nd character give the same 31 characters, and a rep can be        *)
(* called "Summary".                                                       *)
(***************************************************************************)
RepASpaceB == <<"A", " ", "B">>

RepADotB == <<"A", ".", "B">>

RepLongB == [i \in 1..SheetNameLimit |-> "A"] \o <<"B">>

RepLongD == [i \in 1..SheetNameLimit |-> "A"] \o <<"D">>

RepVisitCatalog ==
    { Visit(Str(RepASpaceB), Str(Acme), Str(E1), Str(<<"3", "0", "m">>)),
      Visit(Str(RepADotB), Str(Zed), Str(E2), Str(<<"5", "m">>)),
      Visit(Str(RepLongB), Str(Acme), Str(E1), Str(<<"5", "m">>)),
      Visit(Str(RepLongD), Str(Dot), Absent, Str(<<"3", "0", "m">>)),
      Visit(Str(Summary), Str(Kay), Absent, Str(<<"5", "m">>)),
      Visit(Str(Ana), Str(Zed), Str(E2), Str(<<"5", "m">>)) }

RepOrderCatalog ==
    { Order(Str(Ana), Str(Kay), Str(<<>>), Str(<<"N", "/", "A">>)),
      Order(Str(RepADotB), Str(Zed), Str(E2), Str(<<"5", "0", "0", ".", "0", "0">>)) }

RepsInit ==
    /\ visits_data \in SeqsUpTo(RepVisitCatalog, MaxVisits)
    /\ orders_data \in {<<[o EXCEPT !.id = OrderId(1)]>> : o \in RepOrderCatalog}
    /\ df_visits = EmptyFrame
    /\ df_orders = EmptyFrame
    /\ df_final = EmptyFrame
    /\ df_called = EmptyFrame
    /\ reps = <<>>
    /\ df_summary = EmptyFrame
    /\ pc = "clean_visits"
    /\ raised = "none"
    /\ book = <<>>
    /\ next_rep = 1
    /\ cur_rep = <<>>
    /\ cur_visits = <<>>
    /\ cur_calls = <<>>
    /\ cur_customers = <<>>
    /\ row = 0
    /\ FetchIdle
    /\ MainIdle
    /\ FileIdle
    /\ MailIdle
    /\ first_run = <<>>

SpecReps == RepsInit /\ [][Next]_vars

(***************************************************************************)
(* generate_detailed_report called twice with the same two lists, as two   *)
(* runs of the scheduler do when the upstream data has not changed.        *)
(* first_run keeps what the first call produced: <<[summary, raised]>>.    *)
(***************************************************************************)
TwiceVisitCatalog ==
    { Visit(Str(Ana), Str(Acme), Str(E1), Str(<<"3", "0", "m">>)),
      Visit(Str(Ana), Str(Zed), Str(E2), Str(<<"5", "m">>)),
      Visit(Str(Bo), Str(Dot), Str(<<" ">>), Str(<<"5", "m">>)) }

TwiceOrderCatalog ==
    { Order(Str(Ana), Str(Acme), Str(E1), Str(<<"5", "0", "0", ".", "0", "0">>)),
      Order(Str(Bo), Str(Zed \o <<" ">>), Str(E3), Str(<<"-", "5">>)),
      Order(Str(Ana), Str(Kay), Str(<<>>), Str(<<"N", "/", "A">>)) }

TwiceInit ==
    /\ visits_data \in SeqsUpTo(TwiceVisitCatalog, MaxVisits)
    /\ orders_data \in {[i \in 1..Len(f) |-> [f[i] EXCEPT !.id = OrderId(i)]] :
                           f \in SeqsUpTo(TwiceOrderCatalog, MaxOrders)}
    /\ df_visits = EmptyFrame
    /\ df_orders = EmptyFrame
    /\ df_final = EmptyFrame
    /\ df_called = EmptyFrame
    /\ reps = <<>>
    /\ df_summary = EmptyFrame
    /\ pc = "clean_visits"
    /\ raised = "none"
    /\ book = <<>>
    /\ next_rep = 1
    /\ cur_rep = <<>>
    /\ cur_visits = <<>>
    /\ cur_calls = <<>>
    /\ cur_customers = <<>>
    /\ row = 0
    /\ FetchIdle
    /\ MainIdle
    /\ run_no = 1
    /\ output_file = <<>>
    /\ sent = <<>>
    /\ MailIdle
    /\ first_run = <<>>

\* The first call has returned or raised; the second call starts from the
\* same visits_data and orders_data with fresh locals.
Rerun ==
    /\ pc \in {"done", "raised"}
    /\ run_no = 1
    /\ first_run' = <<[summary |-> df_summary, raised |-> raised]>>
    /\ run_no' = 2
    /\ df_visits' = EmptyFrame
    /\ df_orders' = EmptyFrame
    /\ df_final' = EmptyFrame
    /\ df_called' = EmptyFrame
    /\ reps' = <<>>
    /\ df_summary' = EmptyFrame
    /\ raised' = "none"
    /\ book' = <<>>
    /\ next_rep' = 1
    /\ pc' = "clean_visits"
    /\ UNCHANGED <<visits_data, orders_data, dictVars, fetchVars, mainVars,
                   output_file, sent, mailVars>>

TwiceNext ==
    \/ CleanVisits
    \/ CleanOrders
    \/ MergeVisitsOrders
    \/ GetCalledCustomers
    \/ GetSalesReps
    \/ GenerateSummary
    \/ WriteSummarySheet
    \/ CreateRepSheet
    \/ ExportSummary
    \/ Rerun

SpecTwice == TwiceInit /\ [][TwiceNext]_vars

(***************************************************************************)
(* send_report.py: one call of send_report, statement by statement.  The   *)
(* whole body is inside try/except Exception, so a statement that raises   *)
(* makes the call return False.                                            *)
(***************************************************************************)
SummaryRowCatalog ==
    {[visited |-> 0, called |-> 0], [visited |-> 1, called |-> 1]}

SendEnvs ==
    [password : BOOLEAN, sender : BOOLEAN, to : BOOLEAN, readable : BOOLEAN,
     summary : SeqsUpTo(SummaryRowCatalog, MaxSummaryRows),
     preview : {"off", "ok", "write_fails"}, attach_ok : BOOLEAN,
     fault : {"none", "connect", "starttls", "login", "send_message"}]

SendInit ==
    /\ send_env \in SendEnvs
    /\ output_file \in {<<>>, <<0>>}
    /\ run_no = 0
    /\ sent = <<>>
    /\ smtp = <<>>
    /\ msg = <<>>
    /\ pc = "email_validate"
    /\ raised = "none"
    /\ visits_data = <<>>
    /\ orders_data = <<>>
    /\ df_visits = EmptyFrame
    /\ df_orders = EmptyFrame
    /\ df_final = EmptyFrame
    /\ df_called = EmptyFrame
    /\ reps = <<>>
    /\ df_summary = EmptyFrame
    /\ book = <<>>
    /\ next_rep = 1
    /\ cur_rep = <<>>
    /\ cur_visits = <<>>
    /\ cur_calls = <<>>
    /\ cur_customers = <<>>
    /\ row = 0
    /\ FetchIdle
    /\ MainIdle
    /\ first_run = <<>>

\* What send_report leaves alone besides its own locals.
outsideSend == <<visits_data, orders_data, df_visits, df_orders, df_final,
                 df_called, reps, df_summary, raised, book, next_rep,
                 dictVars, fetchVars, run_mode, config_valid, send_email,
                 today, days, run_calls, failed, exit_code, run_no,
                 output_file, send_env, first_run>>

\* EmailConfig.validate().
ValidateEmailConfig ==
    /\ pc = "email_validate"
    /\ IF email_config_valid(send_env)
       THEN pc' = "check_file" /\ UNCHANGED result
       ELSE pc' = "send_returned" /\ result' = "False"
    /\ UNCHANGED <<sent, smtp, msg>>
    /\ UNCHANGED outsideSend

\* if not os.path.exists(excel_file): return False.
CheckExcelFile ==
    /\ pc = "check_file"
    /\ IF output_file # <<>>
       THEN pc' = "read_summary" /\ UNCHANGED result
       ELSE pc' = "send_returned" /\ result' = "False"
    /\ UNCHANGED <<sent, smtp, msg>>
    /\ UNCHANGED outsideSend

\* pd.read_excel(excel_file, sheet_name=summary_sheet) in its own try.
ReadSummary ==
    /\ pc = "read_summary"
    /\ IF send_env.readable
       THEN pc' = "preview" /\ UNCHANGED result
       ELSE pc' = "send_returned" /\ result' = "False"
    /\ UNCHANGED <<sent, smtp, msg>>
    /\ UNCHANGED outsideSend

\* The optional HTML preview: the body is built and written to a file.
SaveHtmlPreview ==
    /\ pc = "preview"
    /\ IF \/ send_env.preview = "off"
          \/ send_env.preview = "ok" /\ ~build_html_body_raises(send_env.summary)
       THEN pc' = "build" /\ UNCHANGED result
       ELSE pc' = "send_returned" /\ result' = "False"
    /\ UNCHANGED <<sent, smtp, msg>>
    /\ UNCHANGED outsideSend

\* builder.build_message(df_summary, date_str, [excel_file]): _attach_file
\* only logs when it cannot read the file.
BuildMessage ==
    /\ pc = "build"
    /\ IF build_html_body_raises(send_env.summary)
       THEN /\ pc' = "send_returned"
            /\ result' = "False"
            /\ UNCHANGED msg
       ELSE /\ pc' = "smtp_send"
            /\ msg' = <<[run |-> run_no,
                         attachment |-> IF send_env.attach_ok THEN output_file
                                        ELSE <<>>]>>
            /\ UNCHANGED result
    /\ UNCHANGED <<sent, smtp>>
    /\ UNCHANGED outsideSend

\* sender.send(msg): every exception of the SMTP session returns False.
SmtpSend ==
    /\ pc = "smtp_send"
    /\ smtp' = smtp_attempted(send_env.fault)
    /\ IF send_env.fault = "none"
       THEN sent' = Append(sent, msg[1]) /\ result' = "True"
       ELSE UNCHANGED sent /\ result' = "False"
    /\ pc' = "send_returned"
    /\ UNCHANGED msg
    /\ UNCHANGED outsideSend

SendNext ==
    \/ ValidateEmailConfig
    \/ CheckExcelFile
    \/ ReadSummary
    \/ SaveHtmlPreview
    \/ BuildMessage
    \/ SmtpSend

SpecSend == SendInit /\ [][SendNext]_vars

(***************************************************************************)
(* Vocabulary of the properties.                                           *)
(***************************************************************************)
\* merge_visits_orders has returned.
Merged == pc \in {"called", "reps", "summary", "write_summary", "rep_sheets", "done"}

\* get_called_customers has returned.
CalledKnown == pc \in {"reps", "summary", "write_summary", "rep_sheets", "done"}

\* get_sales_reps / generate_summary has returned.
RepsKnown == pc \in {"summary", "write_summary", "rep_sheets", "done"}

Summarised == pc \in {"write_summary", "rep_sheets", "done"}

VisitIdx == 1..Len(df_visits.rows)

OrderIdx == 1..Len(df_orders.rows)

FinalIdx == 1..Len(df_final.rows)

CalledIdx == 1..Len(df_called.rows)

\* The visit a unified row was built from.
VisitPart(r) ==
    [sales_rep     |-> r.sales_rep_visit,
     customer_name |-> r.customer_name_visit,
     erp_code      |-> r.erp_code,
     time_spent    |-> r.time_spent]

\* The four order columns the unification fills.
OrderPart(r) == <<r.order_value, r.customer_code, r.sales_rep_order, r.order_id>>

OrderFields(o) == <<o.order_value, o.customer_code, o.sales_rep, o.order_id>>

\* The cleaned orders that match a cleaned visit in Join A and in Join B.
CodeMatches(v) == {j \in OrderIdx : df_orders.rows[j].customer_code = v.erp_code}

NameMatches(v) == {j \in OrderIdx : df_orders.rows[j].customer_name = v.customer_name}

\* An order field that is empty (text) or zero (number).
BlankText(c) == IsNull(c) \/ c = Some(<<>>)

BlankNumber(c) == IsNull(c) \/ c = Some(0)

Max(a, b) == IF a >= b THEN a ELSE b

RECURSIVE SumOver(_, _)
\* The sum of f over a finite index set.
SumOver(S, f) ==
    IF S = {} THEN 0
    ELSE LET x == CHOOSE y \in S : TRUE IN f[x] + SumOver(S \ {x}, f)

ValueOrZero(c) == IF IsNull(c) THEN 0 ELSE c[1]

\* The order is carried by a unified row / is in the called-only set.
Attached(j) ==
    \E k \in FinalIdx : df_final.rows[k].order_id = df_orders.rows[j].order_id

Called(j) ==
    \E k \in CalledIdx : df_called.rows[k].order_id = df_orders.rows[j].order_id

(***************************************************************************)
(* C1.  merge_visits_orders never drops a visit: every cleaned visit row   *)
(* appears in the unified output, and a visit that no order matches (by    *)
(* ERP code or by customer name) appears with its order fields empty or    *)
(* zero.  Stated of the outputs the function returns.                      *)
(***************************************************************************)
C1_NeverDropsVisit ==
    Merged =>
        /\ \A i \in VisitIdx :
              \E k \in FinalIdx : VisitPart(df_final.rows[k]) = df_visits.rows[i]
        /\ \A k \in FinalIdx :
              LET r == df_final.rows[k]
                  v == VisitPart(r)
              IN  (CodeMatches(v) = {} /\ NameMatches(v) = {}) =>
                      /\ BlankNumber(r.order_value)
                      /\ BlankText(r.customer_code)
                      /\ BlankText(r.sales_rep_order)
                      /\ BlankNumber(r.order_id)

(***************************************************************************)
(* C2.  Original statement: every visit row appears exactly once in the    *)
(* unified output, so the unified row count equals the visit count.        *)
(***************************************************************************)
C2_ExactlyOnce ==
    Merged =>
        /\ Len(df_final.rows) = Len(df_visits.rows)
        /\ \A i \in VisitIdx :
              Cardinality({k \in FinalIdx :
                  VisitPart(df_final.rows[k]) = df_visits.rows[i]})
                = Cardinality({i2 \in VisitIdx : df_visits.rows[i2] = df_visits.rows[i]})

(***************************************************************************)
(* C2, amended.  In the unified output every visit row appears once per    *)
(* order whose customer_code equals the visit's erp_code, and once when    *)
(* there is no such order; orders that share only the visit's customer     *)
(* name add no rows.  The rows of one visit are adjacent and the visits    *)
(* keep their order.                                                       *)
(***************************************************************************)
Copies(i) == Max(1, Cardinality(CodeMatches(df_visits.rows[i])))

C2_MatchMultiplicity ==
    Merged =>
        /\ Len(df_final.rows) = SumOver(VisitIdx, [i \in VisitIdx |-> Copies(i)])
        /\ \A i \in VisitIdx :
              LET before == SumOver(1..(i - 1), [i2 \in 1..(i - 1) |-> Copies(i2)])
              IN  \A k \in (before + 1)..(before + Copies(i)) :
                      VisitPart(df_final.rows[k]) = df_visits.rows[i]

C2_Witness ==
    /\ Merged
    /\ \E i \in VisitIdx : Copies(i) >= 2
    /\ \E i \in VisitIdx :
          /\ Cardinality(NameMatches(df_visits.rows[i])) >= 2
          /\ Copies(i) = 1

(***************************************************************************)
(* C3.  Every order is in exactly one partition: attached to a row of the  *)
(* unified set, or in the called-only set; never both, never neither.      *)
(***************************************************************************)
C3_OrderPartition ==
    CalledKnown => \A j \in OrderIdx : Attached(j) # Called(j)

(***************************************************************************)
(* C4.  The order values of the summary (FROM VISITS plus FROM CALLS over  *)
(* all rows) add up to the total value of the cleaned orders.              *)
(***************************************************************************)
SummaryIdx == 1..Len(df_summary.rows)

C4_ValueCountedOnce ==
    Summarised =>
        SumOver(SummaryIdx,
                [k \in SummaryIdx |-> df_summary.rows[k].ORDER_VALUE_FROM_VISITS])
          + SumOver(SummaryIdx,
                [k \in SummaryIdx |-> df_summary.rows[k].ORDER_VALUE_FROM_CALLS])
          = SumOver(OrderIdx, [j \in OrderIdx |-> df_orders.rows[j].order_value[1]])

(***************************************************************************)
(* C5.  The pipeline is total over empty inputs: with no visits or no      *)
(* orders nothing is raised, and the run ends with a summary (empty when   *)
(* there are no reps).                                                     *)
(***************************************************************************)
C5_TotalOnEmpty ==
    (visits_data = <<>> \/ orders_data = <<>>) =>
        /\ raised = "none"
        /\ Summarised => (reps = <<>> => df_summary.rows = <<>>)

(***************************************************************************)
(* C6.  clean_orders never raises on a malformed record: whatever the      *)
(* balance field holds, once cleaning is over there is one cleaned row per *)
(* raw order.                                                              *)
(***************************************************************************)
C6_CleanOrdersNeverRaises ==
    pc \notin {"clean_visits", "clean_orders"} =>
        /\ raised # "AttributeError"
        /\ Len(df_orders.rows) = Len(orders_data)

(***************************************************************************)
(* C7.  A visit whose erp_code is empty is never joined by ERP code to an  *)
(* order: customer_name_order, which only Join A fills, stays null on its  *)
(* rows.                                                                   *)
(***************************************************************************)
C7_NoEmptyKeyJoin ==
    Merged =>
        \A k \in FinalIdx :
            df_final.rows[k].erp_code = Some(<<>>) =>
                IsNull(df_final.rows[k].customer_name_order)

(***************************************************************************)
(* C8.  For every unified row: when orders match its visit by ERP code the *)
(* four order fields are those of one of them; otherwise, when orders      *)
(* match its visit by customer name, they are those of one of these.       *)
(***************************************************************************)
C8_JoinPriority ==
    Merged =>
        \A k \in FinalIdx :
            LET r == df_final.rows[k]
                v == VisitPart(r)
            IN  IF CodeMatches(v) # {}
                THEN \E j \in CodeMatches(v) :
                        OrderPart(r) = OrderFields(df_orders.rows[j])
                ELSE NameMatches(v) # {} =>
                        \E j \in NameMatches(v) :
                            OrderPart(r) = OrderFields(df_orders.rows[j])

(***************************************************************************)
(* C9.  get_called_customers returns exactly the cleaned orders whose      *)
(* customer_name equals the customer_name of no cleaned visit, of any rep: *)
(* each such order once, no other order, each row tagged with              *)
(* customer_called equal to its customer_name.                             *)
(***************************************************************************)
VisitedName(name) == \E i \in VisitIdx : df_visits.rows[i].customer_name = name

C9_CalledOnly ==
    CalledKnown =>
        /\ \A j \in OrderIdx :
              Cardinality({k \in CalledIdx :
                  df_called.rows[k].order_id = df_orders.rows[j].order_id})
                = IF VisitedName(df_orders.rows[j].customer_name) THEN 0 ELSE 1
        /\ \A k \in CalledIdx :
              \E j \in OrderIdx :
                  LET c == df_called.rows[k]
                      o == df_orders.rows[j]
                  IN  /\ [f \in OrderColumns |-> c[f]] = o
                      /\ c.customer_called = o.customer_name

\* One order is called-only while another is left out because a different
\* rep visited its customer.
C9_Witness ==
    /\ CalledKnown
    /\ df_called.rows # <<>>
    /\ \E j \in OrderIdx, i \in VisitIdx :
          /\ df_orders.rows[j].customer_name = df_visits.rows[i].customer_name
          /\ df_orders.rows[j].sales_rep # df_visits.rows[i].sales_rep
          /\ ~Called(j)

(***************************************************************************)
(* C10.  For each rep the summary row holds: CUSTOMERS VISITED, the number *)
(* of distinct final customer names among the unified rows whose final rep *)
(* is the rep; ORDER VALUE FROM VISITS, the sum of order_value over those  *)
(* rows, a row without an order counting 0; CUSTOMERS CALLED, the number   *)
(* of distinct customer_called among the called-only rows whose sales_rep  *)
(* is the rep; ORDER VALUE FROM CALLS, the sum of order_value over those.  *)
(***************************************************************************)
RowsOfRep(rep) == {i \in FinalIdx : df_final.rows[i].sales_rep_final = Some(rep)}

CallsOfRep(rep) == {i \in CalledIdx : df_called.rows[i].sales_rep = Some(rep)}

C10_SummaryRows ==
    Summarised =>
        /\ Len(df_summary.rows) = Len(reps)
        /\ \A k \in 1..Len(reps) :
              LET s     == df_summary.rows[k]
                  mine  == RowsOfRep(reps[k])
                  calls == CallsOfRep(reps[k])
              IN  /\ s.SALESPERSON = reps[k]
                  /\ s.CUSTOMERS_VISITED =
                        Cardinality({df_final.rows[i].customer_name_final : i \in mine})
                  /\ s.ORDER_VALUE_FROM_VISITS =
                        SumOver(mine, [i \in mine |->
                                        ValueOrZero(df_final.rows[i].order_value)])
                  /\ s.CUSTOMERS_CALLED =
                        Cardinality({df_called.rows[i].customer_called : i \in calls})
                  /\ s.ORDER_VALUE_FROM_CALLS =
                        SumOver(calls, [i \in calls |->
                                        ValueOrZero(df_called.rows[i].order_value)])

\* A rep with more unified rows than distinct customers, one of the rows
\* without an order, and a rep with a called-only order of positive value.
C10_Witness ==
    /\ Summarised
    /\ \E k \in SummaryIdx :
          LET s == df_summary.rows[k]
          IN  /\ s.CUSTOMERS_VISITED >= 1
              /\ Cardinality(RowsOfRep(s.SALESPERSON)) > s.CUSTOMERS_VISITED
              /\ s.ORDER_VALUE_FROM_VISITS > 0
              /\ \E i \in RowsOfRep(s.SALESPERSON) :
                    IsNull(df_final.rows[i].order_value)
    /\ \E k \in SummaryIdx :
          /\ df_summary.rows[k].CUSTOMERS_CALLED >= 1
          /\ df_summary.rows[k].ORDER_VALUE_FROM_CALLS > 0

(***************************************************************************)
(* C11.  The rep list is the lexicographically ascending, duplicate-free   *)
(* union of the non-null final reps of the unified rows and the non-null   *)
(* sales_rep of the called-only rows; the summary has exactly one row per  *)
(* rep in that order; the per-rep sheets are created in that same order,   *)
(* the k-th sheet after the summary sheet by the call for the k-th rep.    *)
(***************************************************************************)
FinalReps ==
    {df_final.rows[i].sales_rep_final[1] :
        i \in {j \in FinalIdx : ~IsNull(df_final.rows[j].sales_rep_final)}}

CalledReps ==
    {df_called.rows[i].sales_rep[1] :
        i \in {j \in CalledIdx : ~IsNull(df_called.rows[j].sales_rep)}}

C11_RepOrder ==
    /\ RepsKnown =>
          /\ \A k \in 1..(Len(reps) - 1) : StrLess(reps[k], reps[k + 1])
          /\ {reps[k] : k \in 1..Len(reps)} = FinalReps \cup CalledReps
    /\ Summarised =>
          [k \in SummaryIdx |-> df_summary.rows[k].SALESPERSON] = reps
    /\ book # <<>> =>
          /\ Len(book) = next_rep
          /\ \A k \in 2..Len(book) : book[k].made_for = Some(reps[k - 1])
    /\ pc = "done" => Len(book) = Len(reps) + 1

\* A finished report with a rep known from visits only, a rep known from
\* called-only orders only, and a rep that several rows name.
C11_Witness ==
    /\ pc = "done"
    /\ Len(book) >= 3
    /\ FinalReps \ CalledReps # {}
    /\ CalledReps \ FinalReps # {}
    /\ \E i, j \in FinalIdx :
          i # j /\ df_final.rows[i].sales_rep_final = df_final.rows[j].sales_rep_final
                /\ ~IsNull(df_final.rows[i].sales_rep_final)

(***************************************************************************)
(* C12.  Scenario: one visit by Ana to Acme with ERP code E1 and one order *)
(* by Ana for Acme with customer code E1, id 101 and balance "500.00" give *)
(* a summary of exactly one row: Ana, 1 customer visited, 500.00 from      *)
(* visits, 0 customers called, 0.0 from calls.                             *)
(***************************************************************************)
C12_Input ==
    /\ Len(visits_data) = 1
    /\ visits_data[1].rep_name = Str(Ana)
    /\ visits_data[1].shop_name = Str(Acme)
    /\ visits_data[1].erp_code = Str(E1)
    /\ orders_data =
          <<[Order(Str(Ana), Str(Acme), Str(E1), Str(<<"5", "0", "0", ".", "0", "0">>))
                EXCEPT !.id = 101]>>

C12_VisitWithOrder ==
    (C12_Input /\ Summarised) =>
        df_summary.rows = <<[SALESPERSON             |-> Ana,
                             CUSTOMERS_VISITED       |-> 1,
                             ORDER_VALUE_FROM_VISITS |-> 50000,
                             CUSTOMERS_CALLED        |-> 0,
                             ORDER_VALUE_FROM_CALLS  |-> 0]>>

\* The scenario has run to the end of the report.
C12_Witness == C12_Input /\ pc = "done" /\ Len(df_summary.rows) = 1

(***************************************************************************)
(* C13.  Scenario: with an empty visit list and one order by Bo with a     *)
(* balance that parses, the called-only set contains the order's customer  *)
(* and the summary is exactly one row: Bo, 0 customers visited, 0.0 from   *)
(* visits, 1 customer called, the order's value from calls.                *)
(***************************************************************************)
C13_Input ==
    /\ visits_data = <<>>
    /\ Len(orders_data) = 1
    /\ orders_data[1].sales_rep = Str(Bo)
    /\ ~clean_orders_raises(orders_data)

C13_CalledOnlyScenario ==
    (C13_Input /\ pc \notin {"clean_visits", "clean_orders", "merge"}) =>
        /\ raised = "none"
        /\ CalledKnown =>
              \E k \in CalledIdx :
                  df_called.rows[k].customer_called =
                      Some(Strip(orders_data[1].customer_name.s))
        /\ Summarised =>
              df_summary.rows = <<[SALESPERSON             |-> Bo,
                                   CUSTOMERS_VISITED       |-> 0,
                                   ORDER_VALUE_FROM_VISITS |-> 0,
                                   CUSTOMERS_CALLED        |-> 1,
                                   ORDER_VALUE_FROM_CALLS  |->
                                       parse_balance(orders_data[1])]>>

(***************************************************************************)
(* C20.  For every unified row the final sales rep is the visit-side rep   *)
(* when the visit record has a rep name, and otherwise the rep of the      *)
(* order matched to that row (empty when the row has no order rep).        *)
(***************************************************************************)
HasRepName(r) == ~IsNull(r.sales_rep_visit) /\ r.sales_rep_visit # Some(<<>>)

C20_FinalRep ==
    Merged =>
        \A k \in FinalIdx :
            LET r == df_final.rows[k]
            IN  IF HasRepName(r) THEN r.sales_rep_final = r.sales_rep_visit
                ELSE IF IsNull(r.sales_rep_order) THEN BlankText(r.sales_rep_final)
                ELSE r.sales_rep_final = r.sales_rep_order

(***************************************************************************)
(* C17.  In a rep's customer mapping a customer is "No Visit" only when it *)
(* comes from a raw order whose sales_rep is that rep and whose customer   *)
(* (the trimmed name) is in neither the visit records nor the called-only  *)
(* set: a customer present in either is never reported as "No Visit".      *)
(***************************************************************************)
CalledName(name) == \E k \in CalledIdx : df_called.rows[k].customer_called = name

C17_NoVisitOnly ==
    \A k \in 1..Len(book) :
        \A b \in 1..Len(book[k].data) :
            LET rep       == book[k].data[b].rep
                customers == book[k].data[b].customers
            IN  \A e \in 1..Len(customers) :
                    customers[e].visit_type = "No Visit" =>
                        /\ \E o \in 1..Len(orders_data) :
                              /\ orders_data[o].sales_rep = Str(rep)
                              /\ orders_data[o].customer_name = Str(customers[e].cust[1])
                        /\ ~VisitedName(Some(Strip(customers[e].cust[1])))
                        /\ ~CalledName(Some(Strip(customers[e].cust[1])))

(***************************************************************************)
(* C14.  In _build_customer_dict a pass of the overlay loop inserts the    *)
(* called customer with classification "Called" when it has no entry,      *)
(* turns an existing "Visited" entry into "Visited & Called", and never    *)
(* changes the time_spent of an entry seeded from a visit.                 *)
(***************************************************************************)
EntryOf(d, cust) == d[KeyIdx(d, cust)]

SeededFromVisit(e) == e.visit_type \in {"Visited", "Visited & Called"}

C14_OverlayEffect ==
    [][(pc = "build_customer_dict" /\ InOverlay /\ row' = row + 1) =>
        LET cust == cur_calls[row - Len(cur_visits) + 1].customer_called
        IN  /\ ~HasKey(cur_customers, cust) =>
                  /\ Len(cur_customers') = Len(cur_customers) + 1
                  /\ cur_customers'[Len(cur_customers')].cust = cust
                  /\ cur_customers'[Len(cur_customers')].visit_type = "Called"
            /\ (HasKey(cur_customers, cust)
                    /\ EntryOf(cur_customers, cust).visit_type = "Visited") =>
                  /\ Len(cur_customers') = Len(cur_customers)
                  /\ EntryOf(cur_customers', cust).visit_type = "Visited & Called"
            /\ \A i \in 1..Len(cur_customers) :
                  SeededFromVisit(cur_customers[i]) =>
                      /\ cur_customers'[i].cust = cur_customers[i].cust
                      /\ cur_customers'[i].time_spent = cur_customers[i].time_spent]_vars

\* The overlay has upgraded a visited customer that keeps a non-empty
\* time_spent and has inserted a called one.
C14_Witness ==
    /\ row >= Len(cur_visits) + Len(cur_calls)
    /\ \E i, j \in 1..Len(cur_customers) :
          /\ cur_customers[i].visit_type = "Visited & Called"
          /\ cur_customers[i].time_spent = Some(<<"5", "m">>)
          /\ cur_customers[j].visit_type = "Called"

(***************************************************************************)
(* C15.  While _build_customer_dict runs its three loops, every entry      *)
(* stays in the dict and its classification only strengthens in the order  *)
(* No Visit < {Visited, Called} < Visited & Called: no step replaces a     *)
(* classification with a weaker or an incomparable one.                    *)
(***************************************************************************)
AtLeast(new, old) == new = old \/ old = "No Visit" \/ new = "Visited & Called"

C15_OnlyStrengthens ==
    [][\A i \in 1..Len(cur_customers) :
          /\ HasKey(cur_customers', cur_customers[i].cust)
          /\ AtLeast(EntryOf(cur_customers', cur_customers[i].cust).visit_type,
                     cur_customers[i].visit_type)]_vars

\* A returned dict with an upgraded entry, a called entry and an entry made
\* by the walk over the raw orders.
C15_Witness ==
    /\ pc = "returned"
    /\ \E i, j, k \in 1..Len(cur_customers) :
          /\ cur_customers[i].visit_type = "Visited & Called"
          /\ cur_customers[j].visit_type = "Called"
          /\ cur_customers[k].visit_type = "No Visit"

(***************************************************************************)
(* C16.  After _build_customer_dict every raw order whose sales_rep is the *)
(* rep and whose customer name is non-empty has an entry for its customer; *)
(* the order list of every entry is exactly the ids of those orders of the *)
(* rep that name the customer, each once, in raw-order-list order; so no   *)
(* id of another rep's order or of an order without a name appears.        *)
(***************************************************************************)
OrdersOf(cust) ==
    {o \in 1..Len(orders_data) :
        /\ orders_data[o].sales_rep = Str(cur_rep)
        /\ cust # Some(<<>>)
        /\ orders_data[o].customer_name = Str(cust[1])}

C16_OrdersAttached ==
    pc = "returned" =>
        /\ \A o \in 1..Len(orders_data) :
              (/\ orders_data[o].sales_rep = Str(cur_rep)
               /\ orders_data[o].customer_name.k = "str"
               /\ orders_data[o].customer_name.s # <<>>) =>
                  HasKey(cur_customers, Some(orders_data[o].customer_name.s))
        /\ \A i \in 1..Len(cur_customers) :
              LET mine == Ascending(OrdersOf(cur_customers[i].cust))
              IN  cur_customers[i].orders =
                      [k \in 1..Len(mine) |-> orders_data[mine[k]].id]

\* Two orders of the rep attached, in order, to a customer the rep visited.
C16_Witness ==
    /\ pc = "returned"
    /\ \E i \in 1..Len(cur_customers) :
          /\ cur_customers[i].visit_type = "Visited"
          /\ cur_customers[i].orders = <<OrderId(1), OrderId(2)>>

(***************************************************************************)
(* C18.  A failure of get_order_details for one order id is not fatal:     *)
(* _fetch_order_items logs it, omits the items of that order, goes on with *)
(* the remaining ids in order and returns the concatenated entries of the  *)
(* orders fetched successfully; nothing is raised, and the sheet gets the  *)
(* block of that customer and of every later customer.                     *)
(***************************************************************************)
\* The order ids of the whole dict, in the order they are fetched.
AllOrderIds == Flatten([i \in 1..Len(cur_customers) |-> cur_customers[i].orders])

Failed(call) == call.response.kind \in {"raise", "null_entries"}

\* The calls made for the given order ids and the entries they delivered.
CallsOf(ids) ==
    SelectSeq(api_calls, LAMBDA c : \E k \in 1..Len(ids) : ids[k] = c.order_id)

Gathered(calls) ==
    Flatten([k \in 1..Len(calls) |->
                IF Failed(calls[k]) THEN <<>> ELSE calls[k].response.entries])

C18_FetchFailureNonFatal ==
    /\ raised = "none"
    /\ [k \in 1..Len(api_calls) |-> api_calls[k].order_id]
          = SubSeq(AllOrderIds, 1, Len(api_calls))
    /\ [k \in 1..Len(log) |-> log[k].order_id]
          = LET errors == SelectSeq(api_calls, Failed)
            IN  [k \in 1..Len(errors) |-> errors[k].order_id]
    /\ pc = "fetch_order_items" =>
          all_items = Gathered(CallsOf(cur_customers[row + 1].orders))
    /\ Len(ws) = row
    /\ \A i \in 1..Len(ws) :
          /\ ws[i].cust = cur_customers[i].cust
          /\ ws[i].products = Gathered(CallsOf(cur_customers[i].orders))
          /\ Len(CallsOf(cur_customers[i].orders)) = Len(cur_customers[i].orders)
    /\ pc = "sheet_written" => Len(ws) = Len(cur_customers)

\* The sheet is complete although a fetch failed: the next order of the
\* same customer still delivered its items and a later customer was written.
C18_Witness ==
    /\ pc = "sheet_written"
    /\ Len(ws) = 2
    /\ Len(log) = 1
    /\ Len(cur_customers[1].orders) = 2
    /\ Failed(api_calls[1])
    /\ ws[1].products = <<Item(OrderId(2), 1), Item(OrderId(2), 2)>>

(***************************************************************************)
(* C19.  An upstream fetch error aborts the whole run without retry: in    *)
(* one run get_orders and get_timesheet are each called at most once; when *)
(* get_orders raises, get_timesheet is never called; when either raises,   *)
(* generate_detailed_report is never called, no email is sent and          *)
(* generate_and_send_report returns False.                                 *)
(***************************************************************************)
Count(name) == Cardinality({k \in 1..Len(run_calls) : run_calls[k] = name})

InRun == pc \in {"fetch_orders", "fetch_timesheet", "generate", "email", "returned"}

C19_FetchErrorAborts ==
    /\ Count("get_orders") <= 1
    /\ Count("get_timesheet") <= 1
    /\ (InRun /\ failed = "get_orders") => Count("get_timesheet") = 0
    /\ (InRun /\ failed \in {"get_orders", "get_timesheet"}) =>
          /\ pc = "returned"
          /\ result = "False"
          /\ Count("generate_detailed_report") = 0
          /\ Count("send_report") = 0

\* A scheduled run, with the email step switched on, that ended when the
\* timesheet fetch raised.
C19_Witness ==
    /\ run_mode = "scheduled"
    /\ send_email
    /\ pc = "returned"
    /\ failed = "get_timesheet"
    /\ run_calls = <<"get_orders", "get_timesheet">>
    /\ result = "False"

(***************************************************************************)
(* C22.  Every cleaned order row produced by clean_orders has              *)
(* order_value >= 0, whatever the raw balance string is.                   *)
(***************************************************************************)
C22_NonNegativeValue ==
    \A j \in OrderIdx : df_orders.rows[j].order_value[1] >= 0

(***************************************************************************)
(* C26.  In the pipeline "Visited & Called" is unreachable: for every rep  *)
(* no customer is both among the rep's unified rows and among the rep's    *)
(* called-only rows, and no customer entry of any rep block written to the *)
(* workbook is classified "Visited & Called".                              *)
(***************************************************************************)
C26_NeverVisitedAndCalled ==
    /\ RepsKnown =>
          \A k \in 1..Len(reps) :
              {df_final.rows[i].customer_name_final : i \in RowsOfRep(reps[k])}
                \cap {df_called.rows[i].customer_called : i \in CallsOfRep(reps[k])}
                = {}
    /\ \A k \in 1..Len(book) :
          \A b \in 1..Len(book[k].data) :
              \A e \in 1..Len(book[k].data[b].customers) :
                  book[k].data[b].customers[e].visit_type # "Visited & Called"

\* A finished report in which one rep has a visited and a called customer.
C26_Witness ==
    /\ pc = "done"
    /\ \E k \in 1..Len(book) :
          \E b \in 1..Len(book[k].data) :
              \E e, f \in 1..Len(book[k].data[b].customers) :
                  /\ book[k].data[b].customers[e].visit_type = "Visited"
                  /\ book[k].data[b].customers[f].visit_type = "Called"

(***************************************************************************)
(* C27.  For every rep, every raw order of that rep whose trimmed customer *)
(* name equals the name of a customer the rep visited has its id in the    *)
(* order list of that visited customer's entry of the rep's mapping.       *)
(***************************************************************************)
C27_OrderOnVisitedEntry ==
    \A k \in 1..Len(book) :
        \A b \in 1..Len(book[k].data) :
            LET blk == book[k].data[b]
            IN  \A o \in 1..Len(orders_data) :
                    \A e \in 1..Len(blk.customers) :
                        (/\ orders_data[o].sales_rep = Str(blk.rep)
                         /\ orders_data[o].customer_name.k = "str"
                         /\ blk.customers[e].visit_type = "Visited"
                         /\ blk.customers[e].cust
                               = Some(Strip(orders_data[o].customer_name.s))) =>
                            \E n \in 1..Len(blk.customers[e].orders) :
                                blk.customers[e].orders[n] = orders_data[o].id

(***************************************************************************)
(* C28.  Every order carried by a unified row of a rep, whose value counts *)
(* in that rep's ORDER VALUE FROM VISITS, is an order whose own sales_rep  *)
(* is that rep.                                                            *)
(***************************************************************************)
C28_CreditedToOwnRep ==
    Merged =>
        \A k \in FinalIdx :
            LET r == df_final.rows[k]
            IN  (~IsNull(r.sales_rep_final) /\ ~IsNull(r.order_id)) =>
                    \E j \in OrderIdx :
                        /\ df_orders.rows[j].order_id = r.order_id
                        /\ df_orders.rows[j].sales_rep = r.sales_rep_final

(***************************************************************************)
(* C24.  generate_and_send_report returns True if and only if the whole    *)
(* workflow succeeded: the configuration is valid, both fetches and the    *)
(* report generation completed and, when SEND_EMAIL is on, the email was   *)
(* sent; in every other case it returns False.                             *)
(***************************************************************************)
C24_TrueIffAllSucceeded ==
    pc = "returned" =>
        /\ result \in {"True", "False"}
        /\ result = "True" <=> failed = "none"

(***************************************************************************)
(* C30.  In scheduled mode a failed report run does not stop the           *)
(* scheduler: the process never exits, a returned run hands control back   *)
(* to the scheduler loop, the loop can always move on to the next day, and *)
(* on the next weekday the job runs generate_and_send_report again; the    *)
(* job runs it only when the current day is Monday to Friday.              *)
(***************************************************************************)
C30_SchedulerSurvives ==
    /\ [](run_mode = "scheduled" => (pc # "exit" /\ exit_code = -1))
    /\ []((run_mode = "scheduled" /\ pc = "scheduler" /\ days < MaxDays) =>
              ENABLED SchedulerTick)
    /\ []((run_mode = "scheduled"
           /\ pc \in {"validate", "fetch_orders", "fetch_timesheet", "generate",
                      "email", "returned"}) => today < 5)
    /\ [][(run_mode = "scheduled" /\ pc = "returned") => pc' = "scheduler"]_vars
    /\ [][(pc = "scheduler" /\ days' = days + 1) =>
              pc' = (IF today' < 5 THEN "scheduled_job" ELSE "scheduler")]_vars
    /\ [][pc = "scheduled_job" =>
              pc' = (IF today < 5 THEN "validate" ELSE "scheduler")]_vars

\* The job of the second day starts a run after the first day's run failed.
C30_Witness ==
    /\ run_mode = "scheduled"
    /\ days = 2
    /\ pc = "validate"
    /\ failed # "none"
    /\ result = "False"

(***************************************************************************)
(* C29.  Within one run of generate_and_send_report an email is sent only  *)
(* after generate_detailed_report returned in that same run, and a         *)
(* spreadsheet attached to it is the file that run wrote: after a call of  *)
(* generate_detailed_report the file of an earlier run is gone, and a run  *)
(* whose generation failed sends no email.                                 *)
(***************************************************************************)
C29_FreshReportOnly ==
    /\ [][sent' # sent =>
              /\ pc = "email"
              /\ failed = "none"
              /\ run_calls = <<"get_orders", "get_timesheet",
                               "generate_detailed_report">>
              /\ output_file = <<run_no>>
              /\ \E a \in {<<>>, <<run_no>>} :
                    sent' = Append(sent, [run |-> run_no, attachment |-> a])]_vars
    /\ [][pc = "generate" => output_file' \in {<<>>, <<run_no>>}]_vars
    /\ [](\A i \in 1..Len(sent) : sent[i].attachment \in {<<>>, <<sent[i].run>>})
    /\ []((pc = "returned" /\ failed = "generate_detailed_report") =>
              \A i \in 1..Len(sent) : sent[i].run # run_no)

\* The second run of the scheduler has sent its own file, the first run
\* having left its file on disk.
C29_Witness ==
    /\ pc = "returned"
    /\ run_no = 2
    /\ Len(sent) = 2
    /\ sent[1] = [run |-> 1, attachment |-> <<1>>]
    /\ sent[2] = [run |-> 2, attachment |-> <<2>>]

(***************************************************************************)
(* C25.  send_report returns True exactly when the SMTP send succeeded and *)
(* False otherwise, and no exception escapes it: an invalid email          *)
(* configuration, a missing Excel file, an unreadable summary sheet, a     *)
(* failure while building the message and any SMTP or connection error     *)
(* all give False, and in the first four cases no SMTP connection is       *)
(* attempted.                                                              *)
(***************************************************************************)
C25_SendReportResult ==
    LET config_bad == ~send_env.password \/ ~send_env.sender \/ ~send_env.to
        no_file    == output_file = <<>>
        unreadable == ~send_env.readable
        build_bad  == \/ send_env.summary = <<>>
                      \/ \A i \in 1..Len(send_env.summary) :
                            send_env.summary[i].visited + send_env.summary[i].called = 0
    IN  /\ raised = "none"
        /\ (config_bad \/ no_file \/ unreadable \/ build_bad) => smtp = <<>>
        /\ pc = "send_returned" =>
              /\ result \in {"True", "False"}
              /\ result = "True" <=>
                    (smtp = SmtpSteps /\ send_env.fault = "none" /\ Len(sent) = 1)
              /\ (config_bad \/ no_file \/ unreadable \/ build_bad
                    \/ send_env.fault # "none") => result = "False"

\* The configuration is valid, the file is there and readable, and the
\* message cannot be built from a summary without customers: False, and no
\* SMTP operation.
C25_Witness ==
    /\ pc = "send_returned"
    /\ result = "False"
    /\ send_env.password /\ send_env.sender /\ send_env.to
    /\ output_file = <<0>>
    /\ send_env.readable
    /\ send_env.preview = "off"
    /\ send_env.fault = "none"
    /\ Len(send_env.summary) = 2
    /\ smtp = <<>>

C21_OwnSheetPerRep ==
    /\ \A k \in 1..Len(book) :
          \A b \in 1..Len(book[k].data) :
              book[k].made_for = Some(book[k].data[b].rep)
    /\ pc = "done" =>
          /\ Len(book) = 1 + Len(reps)
          /\ book[1].title = Summary
          /\ book[1].data = <<>>
          /\ \A k \in 1..Len(reps) :
                /\ book[k + 1].made_for = Some(reps[k])
                /\ Len(book[k + 1].data) = 1
                /\ book[k + 1].data[1].rep = reps[k]
          /\ \A j, k \in 1..Len(book) : j # k => book[j].title # book[k].title

=============================================================================
